---- MODULE Spec2Model ----
(***************************************************************************)
(* X86 baytrail chipset power control (src/src/power/baytrail.c).          *)
(*                                                                         *)
(* The power task runs power_handle_state(state) in a loop.  The model     *)
(* follows the task from one point where it can be suspended (msleep,      *)
(* usleep, power_wait_signals) to the next: pc names the point, and every  *)
(* action performs all the code between two such points.  The hardware     *)
(* lines the code reads (power-good and sleep lines, lid) change at any    *)
(* time; console and host commands run between any two steps.              *)
(***************************************************************************)
EXTENDS Integers, Sequences, FiniteSets, TLC

(* ------------------------------------------------------------------ *)
(* Bounds of the model                                                 *)
(* ------------------------------------------------------------------ *)

\* Largest value a host command writes into pause_in_s5 (p->value).
MaxGsvValue == 2

\* Notifications kept in the history variable hooks (a prefix of the run's).
MaxHooks == 3

(* ------------------------------------------------------------------ *)
(* Program constants                                                   *)
(* ------------------------------------------------------------------ *)

\* for (i = 0; i < 50; i++)
PLTRST_POLLS == 50

\* enum power_state
POWER_G3 == "G3"
POWER_S5 == "S5"
POWER_S3 == "S3"
POWER_S0 == "S0"
POWER_G3S5 == "G3S5"
POWER_S5S3 == "S5S3"
POWER_S3S0 == "S3S0"
POWER_S0S3 == "S0S3"
POWER_S3S5 == "S3S5"
POWER_S5G3 == "S5G3"

SteadyStates == {POWER_G3, POWER_S5, POWER_S3, POWER_S0}
TransitionalStates ==
    {POWER_G3S5, POWER_S5S3, POWER_S3S0, POWER_S0S3, POWER_S3S5, POWER_S5G3}
PowerStates == SteadyStates \cup TransitionalStates

\* Input state flags: a signal mask is the set of its asserted signals.
IN_PGOOD_PP5000 == {"X86_PGOOD_PP5000"}
IN_PGOOD_S5 == {"X86_PGOOD_S5"}
IN_PGOOD_VCORE == {"X86_PGOOD_VCORE"}
IN_SLP_S3_DEASSERTED == {"X86_SLP_S3_DEASSERTED"}
IN_SLP_S4_DEASSERTED == {"X86_SLP_S4_DEASSERTED"}

IN_PGOOD_ALWAYS_ON == IN_PGOOD_S5
IN_PGOOD_ALL_NONCORE == IN_PGOOD_PP5000
IN_PGOOD_ALL_CORE == IN_PGOOD_VCORE
IN_PGOOD_S3 == IN_PGOOD_ALWAYS_ON
IN_PGOOD_S0_NoNonCore == IN_PGOOD_ALWAYS_ON
IN_PGOOD_S0 == IN_PGOOD_ALWAYS_ON \cup IN_PGOOD_ALL_NONCORE
IN_ALL_PM_SLP_DEASSERTED == IN_SLP_S3_DEASSERTED \cup IN_SLP_S4_DEASSERTED
IN_ALL_S0 ==
    IN_PGOOD_ALWAYS_ON \cup IN_PGOOD_ALL_NONCORE \cup IN_PGOOD_ALL_CORE
        \cup IN_ALL_PM_SLP_DEASSERTED

\* The signals baytrail.c reads (IN_PGOOD_PP1050 is defined and never used).
Signals == IN_ALL_S0

\* The outputs baytrail.c drives with gpio_set_level.  PCH_RCIN_L is driven
\* by chipset_reset only.
Outputs ==
    {"GPIO_PCH_SYS_PWROK", "GPIO_PCH_RSMRST_L", "GPIO_PCH_CORE_PWROK",
     "GPIO_VCORE_EN", "GPIO_SUSP_VR_EN", "GPIO_PP1350_EN", "GPIO_PP3300_DX_EN",
     "GPIO_PP5000_EN", "GPIO_TOUCHSCREEN_RESET_L", "GPIO_ENABLE_TOUCHPAD",
     "GPIO_CPU_PROCHOT", "GPIO_PCH_RCIN_L"}

WirelessStates == {"WIRELESS_OFF", "WIRELESS_SUSPEND", "WIRELESS_ON"}

HookKinds ==
    {"HOOK_CHIPSET_STARTUP", "HOOK_CHIPSET_RESUME", "HOOK_CHIPSET_SUSPEND",
     "HOOK_CHIPSET_SHUTDOWN"}

VARIABLES
    state,                \* the power task's current enum power_state
    pc,                   \* where the power task is: about to run
                          \* power_chipset_init in an image entered by
                          \* "reset" or by "sysjump", at "loop" (between two
                          \* power_handle_state calls), or at a suspension
                          \* point inside a transition script
    i,                    \* the PLTRST# poll counter of S3->S0
    gpio,                 \* level of every output
    wireless,             \* last wireless_set_state
    sleep_disabled,       \* SLEEP_MASK_AP_RUN set (deep sleep not permitted)
    signals,              \* hardware lines currently asserted
    throttle_cpu,
    pause_in_s5,
    restart_from_s5,
    fake_pltrst_timeout,
    arg,                  \* history: argument of the current or last
                          \* power_handle_state call, "none" before the first
    log,                  \* history: what the current or last call did, in order
    tracing,              \* history: whether this run records hooks
    hooks,                \* history: the first MaxHooks notifications fired
                          \* since power_chipset_init, in a run that records
                          \* them (tracing); <<>> in the other runs
    ext                   \* where a caller of chipset_reset is: "idle" (no
                          \* call in progress), in the udelay(100) of a cold
                          \* reset or in the usleep(32 * MSEC) of a warm one

\* The console UART's transmit side (common/uart_buffering.c).
VARIABLES
    tx_buf,               \* the transmit ring, a character per slot
    tx_buf_head,          \* next slot to write
    tx_buf_tail,          \* next slot to transmit
    uart_suspended,       \* XOFF received and no XON since
    tx_irq,               \* the transmit interrupt is enabled
    tx_pc,                \* where the preemptible caller of __tx_char is
    tx_buf_next,          \* its local tx_buf_next
    tx_c,                 \* its argument c
    tx_count,             \* characters handed to __tx_char so far; the
                          \* next character is tx_count + 1
    accepted,             \* history: characters for which __tx_char
                          \* returned 0, in the order of the returns
    dropped,              \* history: characters for which it returned 1
    sent,                 \* history: characters given to uart_write_char
    fl_pc,                \* where the caller of uart_flush_output is
    fl_irq                \* in_interrupt_context() of that caller

\* The accelerometer samples shared with the host (common/motion_sense.c)
\* and a host that reads them.
VARIABLES
    lpc_status,           \* *lpc_status: the busy bit and the sample id
                          \* (the presence bit is set all along)
    lpc_data,             \* lpc_data[0 .. 6]; a word holds the number of
                          \* the loop iteration that wrote it
    sample_id,            \* the task's local sample_id
    ms_pc,                \* where motion_sense_task is in its loop
    ms_k,                 \* the next word it copies
    ms_iter,              \* history: iterations begun so far
    h_pc,                 \* where the host reader is
    h_k,                  \* the next word it reads
    h_id,                 \* the sample id it read before the data
    h_data,               \* the words it has read
    h_start               \* history: iterations completed when it read
                          \* the status before the data

\* The lightbar task (common/lightbar.c).
VARIABLES
    cur_seq,              \* st.cur_seq: the sequence the task runs
    prev_seq,             \* st.prev_seq
    pending_msg,          \* the latest sequence requested
    lb_event              \* the task's PENDING_MSG event is set

uart_vars ==
    <<tx_buf, tx_buf_head, tx_buf_tail, uart_suspended, tx_irq, tx_pc,
      tx_buf_next, tx_c, tx_count, accepted, dropped, sent, fl_pc, fl_irq>>

motion_vars ==
    <<lpc_status, lpc_data, sample_id, ms_pc, ms_k, ms_iter, h_pc, h_k, h_id,
      h_data, h_start>>

lightbar_vars == <<cur_seq, prev_seq, pending_msg, lb_event>>

\* What the power task and the chipset interface never touch.
others == <<uart_vars, motion_vars, lightbar_vars>>

power_vars ==
    <<state, pc, i, gpio, wireless, sleep_disabled, signals, throttle_cpu, pause_in_s5, restart_from_s5, fake_pltrst_timeout, arg,
      log, tracing, hooks, ext>>

vars == <<power_vars, others>>

history == <<tracing, hooks>>
outputs == <<gpio, wireless, sleep_disabled>>
flags == <<throttle_cpu, pause_in_s5, restart_from_s5, fake_pltrst_timeout>>

(* ------------------------------------------------------------------ *)
(* Effects: what a piece of code does, as a sequence of calls          *)
(* ------------------------------------------------------------------ *)

GpioSet(name, level) == <<"gpio_set_level", name, level>>
WirelessSet(s) == <<"wireless_set_state", s, 0>>
HookNotify(kind) == <<"hook_notify", kind, 0>>
DisableSleep == <<"disable_sleep", "SLEEP_MASK_AP_RUN", 0>>
EnableSleep == <<"enable_sleep", "SLEEP_MASK_AP_RUN", 0>>
ButtonRelease == <<"power_button_pch_release", "", 0>>
ButtonPulse == <<"power_button_pch_pulse", "", 0>>
ForceShutdownCall == <<"chipset_force_shutdown", "", 0>>

\* gpio_set_level(signal, value) drives the output high iff value is not 0.
RECURSIVE ApplyGpio(_, _)
ApplyGpio(g, eff) ==
    IF eff = <<>> THEN g
    ELSE ApplyGpio(IF Head(eff)[1] = "gpio_set_level"
                      THEN [g EXCEPT ![Head(eff)[2]] =
                                IF Head(eff)[3] # 0 THEN 1 ELSE 0]
                      ELSE g,
                   Tail(eff))

RECURSIVE ApplyWireless(_, _)
ApplyWireless(w, eff) ==
    IF eff = <<>> THEN w
    ELSE ApplyWireless(IF Head(eff)[1] = "wireless_set_state"
                          THEN Head(eff)[2] ELSE w,
                       Tail(eff))

RECURSIVE ApplySleep(_, _)
ApplySleep(s, eff) ==
    IF eff = <<>> THEN s
    ELSE ApplySleep(IF Head(eff)[1] = "disable_sleep" THEN TRUE
                    ELSE IF Head(eff)[1] = "enable_sleep" THEN FALSE
                    ELSE s,
                    Tail(eff))

IsHook(e) == e[1] = "hook_notify"
HookName(e) == e[2]

RECURSIVE Names(_)
Names(seq) == IF seq = <<>> THEN <<>> ELSE <<HookName(Head(seq))>> \o Names(Tail(seq))

Notified(eff) == Names(SelectSeq(eff, IsHook))

Prefix(seq, n) == IF Len(seq) <= n THEN seq ELSE SubSeq(seq, 1, n)

InLog(e, l) == \E k \in 1 .. Len(l) : l[k] = e

\* The code runs eff; base is the log so far (<<>> at the start of a call).
Do(base, eff) ==
    /\ gpio' = ApplyGpio(gpio, eff)
    /\ wireless' = ApplyWireless(wireless, eff)
    /\ sleep_disabled' = ApplySleep(sleep_disabled, eff)
    /\ hooks' = (IF tracing THEN Prefix(hooks \o Notified(eff), MaxHooks)
                 ELSE hooks)
    /\ tracing' = tracing
    /\ log' = base \o eff
    /\ UNCHANGED others

\* Signal Source: every bit of want is set in the current signal mask.
power_has_signals(want) == (signals \cap want) = want

\* chipset_force_shutdown that leaves RSMRST# alone.
chipset_force_shutdown_OnlySysPwrok ==
    <<ForceShutdownCall, GpioSet("GPIO_PCH_SYS_PWROK", 0)>>

\* chipset_force_shutdown()
chipset_force_shutdown ==
    <<ForceShutdownCall,
      GpioSet("GPIO_PCH_SYS_PWROK", 0),
      GpioSet("GPIO_PCH_RSMRST_L", 0)>>


\* gpio_get_level() of an input line the PCH drives (active-low sleep lines).
gpio_get_level(line) ==
    IF line = "GPIO_PCH_SLP_S3_L"
      THEN (IF "X86_SLP_S3_DEASSERTED" \in signals THEN 1 ELSE 0)
      ELSE (IF "X86_SLP_S4_DEASSERTED" \in signals THEN 1 ELSE 0)

BoolToInt(b) == IF b THEN 1 ELSE 0

(* ------------------------------------------------------------------ *)
(* Initial states                                                      *)
(* ------------------------------------------------------------------ *)

\* Every output low, but the reset input of the PCH (active low, pulsed by
\* chipset_reset only), which is deasserted.
AllLow == [o \in Outputs |-> IF o = "GPIO_PCH_RCIN_L" THEN 1 ELSE 0]

\* Outputs as the state machine leaves them at rest in S3 (lid open) and in S0.
RestS3 ==
    [o \in Outputs |->
        IF o \in {"GPIO_SUSP_VR_EN", "GPIO_PCH_RSMRST_L", "GPIO_PP1350_EN",
                  "GPIO_ENABLE_TOUCHPAD", "GPIO_TOUCHSCREEN_RESET_L",
                  "GPIO_PCH_RCIN_L"}
          THEN 1 ELSE 0]
RestS0 == [o \in Outputs |-> IF o = "GPIO_CPU_PROCHOT" THEN 0 ELSE 1]

\* What the image that ran before a jump may have left behind.
PreviousImage ==
    {[gpio |-> AllLow, wireless |-> "WIRELESS_OFF"],
     [gpio |-> RestS3, wireless |-> "WIRELESS_SUSPEND"],
     [gpio |-> RestS0, wireless |-> "WIRELESS_ON"]}

\* Size of the transmit ring, a power of two; one slot always stays free.
CONFIG_UART_TX_BUF_SIZE == 4

\* The statics of uart_buffering.c in a fresh image: an empty ring, output
\* not suspended, nobody inside __tx_char or uart_flush_output.
UartEntry ==
    /\ tx_buf = [k \in 0 .. CONFIG_UART_TX_BUF_SIZE - 1 |-> 0]
    /\ tx_buf_head = 0
    /\ tx_buf_tail = 0
    /\ uart_suspended = FALSE
    /\ tx_irq = FALSE
    /\ tx_pc = "idle"
    /\ tx_buf_next = 0
    /\ tx_c = 0
    /\ tx_count = 0
    /\ accepted = <<>>
    /\ dropped = {}
    /\ sent = <<>>
    /\ fl_pc = "idle"
    /\ fl_irq = FALSE

\* Words of a sample: lpc_data[0] .. lpc_data[6].
NumWords == 7

\* motion_sense_task about to enter its loop for the first time (line 225):
\* the presence bit set, sample id 0, nothing copied yet; the host idle.
MotionEntry ==
    /\ lpc_status = [busy |-> FALSE, sample_id |-> 0]
    /\ lpc_data = [k \in 0 .. NumWords - 1 |-> 0]
    /\ sample_id = 0
    /\ ms_pc = "sleep"
    /\ ms_k = 0
    /\ ms_iter = 0
    /\ h_pc = "idle"
    /\ h_k = 0
    /\ h_id = 0
    /\ h_data = <<>>
    /\ h_start = 0

\* lightbar_task after lightbar_restore_state() found nothing to restore:
\* st.cur_seq = st.prev_seq = LIGHTBAR_S5; pending_msg is a zeroed static,
\* and sequence number 0 is ERROR.
LightbarEntry ==
    /\ cur_seq = "S5"
    /\ prev_seq = "S5"
    /\ pending_msg = "ERROR"
    /\ lb_event = FALSE

\* The state in which power_chipset_init is entered.
Entry ==
    /\ state = POWER_G3
    /\ pc \in {"reset", "sysjump"}
    /\ i = 0
    /\ \E prev \in PreviousImage :
          /\ gpio = (IF pc = "sysjump" THEN prev.gpio ELSE AllLow)
          /\ wireless = (IF pc = "sysjump" THEN prev.wireless
                         ELSE "WIRELESS_OFF")
    /\ sleep_disabled = FALSE
    /\ throttle_cpu = 0
    /\ pause_in_s5 = 1
    /\ restart_from_s5 = 0
    /\ fake_pltrst_timeout = 0
    /\ arg = "none"
    /\ log = <<>>
    /\ hooks = <<>>
    /\ ext = "idle"
    /\ UartEntry
    /\ MotionEntry
    /\ LightbarEntry

Init ==
    /\ Entry
    /\ signals \in SUBSET Signals
    /\ tracing = FALSE

(* ------------------------------------------------------------------ *)
(* power_chipset_init                                                  *)
(* ------------------------------------------------------------------ *)

\* Forced G3 that turns the non-core rails off before the core rail.
ForceG3_RailsFirst ==
    <<GpioSet("GPIO_PCH_CORE_PWROK", 0),
      GpioSet("GPIO_PP3300_DX_EN", 0),
      GpioSet("GPIO_PP5000_EN", 0),
      GpioSet("GPIO_VCORE_EN", 0),
      GpioSet("GPIO_SUSP_VR_EN", 0),
      GpioSet("GPIO_PP1350_EN", 0),
      GpioSet("GPIO_PCH_RSMRST_L", 0),
      GpioSet("GPIO_PCH_SYS_PWROK", 0),
      WirelessSet("WIRELESS_OFF")>>

ForceG3 ==
    <<GpioSet("GPIO_PCH_CORE_PWROK", 0),
      GpioSet("GPIO_VCORE_EN", 0),
      GpioSet("GPIO_SUSP_VR_EN", 0),
      GpioSet("GPIO_PP1350_EN", 0),
      GpioSet("GPIO_PP3300_DX_EN", 0),
      GpioSet("GPIO_PP5000_EN", 0),
      GpioSet("GPIO_PCH_RSMRST_L", 0),
      GpioSet("GPIO_PCH_SYS_PWROK", 0),
      WirelessSet("WIRELESS_OFF")>>

\* system_jumped_to_this_image()
system_jumped_to_this_image == pc = "sysjump"

\* power_chipset_init without the "already in S0" case.
power_chipset_init_result_AlwaysForcesG3 ==
    IF system_jumped_to_this_image
      THEN [eff |-> ForceG3, ret |-> POWER_G3]
      ELSE [eff |-> <<>>, ret |-> POWER_G3]

\* What power_chipset_init does and returns.
power_chipset_init_result ==
    IF system_jumped_to_this_image
      THEN IF (signals \cap IN_ALL_S0) = IN_ALL_S0
             THEN [eff |-> <<DisableSleep>>, ret |-> POWER_S0]
             ELSE [eff |-> ForceG3, ret |-> POWER_G3]
      ELSE [eff |-> <<>>, ret |-> POWER_G3]

power_chipset_init ==
    /\ pc \in {"reset", "sysjump"}
    /\ Do(<<>>, power_chipset_init_result.eff)
    /\ state' = power_chipset_init_result.ret
    /\ pc' = "loop"
    /\ UNCHANGED <<i, signals, flags, arg, ext>>

(* ------------------------------------------------------------------ *)
(* power_handle_state                                                  *)
(* ------------------------------------------------------------------ *)

\* What a piece of power_handle_state does (eff) and how it ends: it
\* returns ret to the task loop, or the task is suspended at point pc.
Return(eff, ret) == [eff |-> eff, pc |-> "loop", ret |-> ret]
Suspend(eff, at) == [eff |-> eff, pc |-> at, ret |-> "none"]

\* The power task, at point `at` of power_handle_state(st), runs piece r.
\* At "loop" this is the task loop calling power_handle_state(state) and,
\* when r returns, storing the returned state.
Step(at, st, r) ==
    /\ pc = at
    /\ state = st
    /\ arg' = st
    /\ Do(IF at = "loop" THEN <<>> ELSE log, r.eff)
    /\ pc' = r.pc
    /\ state' = (IF r.pc = "loop" THEN r.ret ELSE state)
    /\ UNCHANGED <<signals, ext>>

\* power_wait_signals(want): EC_SUCCESS once every wanted signal is set,
\* EC_ERROR_TIMEOUT when the timeout elapses first.
EC_SUCCESS == "EC_SUCCESS"
EC_ERROR_TIMEOUT == "EC_ERROR_TIMEOUT"
power_wait_signals(want) ==
    IF power_has_signals(want) THEN EC_SUCCESS ELSE EC_ERROR_TIMEOUT

\* case POWER_G3
handle_G3_PowersOn == Return(<<>>, POWER_G3S5)
handle_G3 == Return(<<>>, POWER_G3)

\* case POWER_S5
handle_S5 ==
    IF gpio_get_level("GPIO_PCH_SLP_S4_L") = 1
      THEN Return(<<>>, POWER_S5S3)
      ELSE Return(<<>>, POWER_S5)

LidIsOpen(open) == <<"lid_is_open", "", BoolToInt(open)>>

\* case POWER_S3; lid_open is lid_is_open()
handle_S3_SleepLinesFirst(lid_open) ==
    LET ts == <<LidIsOpen(lid_open),
                GpioSet("GPIO_TOUCHSCREEN_RESET_L", BoolToInt(lid_open))>>
    IN  IF gpio_get_level("GPIO_PCH_SLP_S3_L") = 1
          THEN Return(ts, POWER_S3S0)
        ELSE IF ~power_has_signals(IN_PGOOD_S3)
          THEN Return(ts \o chipset_force_shutdown, POWER_S3S5)
        ELSE IF gpio_get_level("GPIO_PCH_SLP_S4_L") = 0
          THEN Return(ts, POWER_S3S5)
        ELSE Return(ts, POWER_S3)
handle_S3_S4BeforeS3(lid_open) ==
    LET ts == <<LidIsOpen(lid_open),
                GpioSet("GPIO_TOUCHSCREEN_RESET_L", BoolToInt(lid_open))>>
    IN  IF ~power_has_signals(IN_PGOOD_S3)
          THEN Return(ts \o chipset_force_shutdown, POWER_S3S5)
        ELSE IF gpio_get_level("GPIO_PCH_SLP_S4_L") = 0
          THEN Return(ts, POWER_S3S5)
        ELSE IF gpio_get_level("GPIO_PCH_SLP_S3_L") = 1
          THEN Return(ts, POWER_S3S0)
        ELSE Return(ts, POWER_S3)

\* case POWER_S3 that reads the lid but leaves the touchscreen reset alone.
handle_S3_TouchscreenUntouched(lid_open) ==
    LET ts == <<LidIsOpen(lid_open)>>
    IN  IF ~power_has_signals(IN_PGOOD_S3)
          THEN Return(ts \o chipset_force_shutdown, POWER_S3S5)
        ELSE IF gpio_get_level("GPIO_PCH_SLP_S3_L") = 1
          THEN Return(ts, POWER_S3S0)
        ELSE IF gpio_get_level("GPIO_PCH_SLP_S4_L") = 0
          THEN Return(ts, POWER_S3S5)
        ELSE Return(ts, POWER_S3)

handle_S3(lid_open) ==
    LET ts == <<LidIsOpen(lid_open),
                GpioSet("GPIO_TOUCHSCREEN_RESET_L", BoolToInt(lid_open))>>
    IN  IF ~power_has_signals(IN_PGOOD_S3)
          THEN Return(ts \o chipset_force_shutdown, POWER_S3S5)
        ELSE IF gpio_get_level("GPIO_PCH_SLP_S3_L") = 1
          THEN Return(ts, POWER_S3S0)
        ELSE IF gpio_get_level("GPIO_PCH_SLP_S4_L") = 0
          THEN Return(ts, POWER_S3S5)
        ELSE Return(ts, POWER_S3)

\* case POWER_S0
handle_S0_NoShutdown ==
    IF ~power_has_signals(IN_PGOOD_S0)
      THEN Return(<<>>, POWER_S0S3)
    ELSE IF gpio_get_level("GPIO_PCH_SLP_S3_L") = 0
      THEN Return(<<>>, POWER_S0S3)
    ELSE Return(<<>>, POWER_S0)
handle_S0 ==
    IF ~power_has_signals(IN_PGOOD_S0)
      THEN Return(chipset_force_shutdown, POWER_S0S3)
    ELSE IF gpio_get_level("GPIO_PCH_SLP_S3_L") = 0
      THEN Return(<<>>, POWER_S0S3)
    ELSE Return(<<>>, POWER_S0)

HandleG3 == Step("loop", POWER_G3, handle_G3) /\ UNCHANGED <<i, flags>>
HandleS5 == Step("loop", POWER_S5, handle_S5) /\ UNCHANGED <<i, flags>>
HandleS3 ==
    \E lid_open \in BOOLEAN :
        Step("loop", POWER_S3, handle_S3(lid_open)) /\ UNCHANGED <<i, flags>>
HandleS0 == Step("loop", POWER_S0, handle_S0) /\ UNCHANGED <<i, flags>>

(* case POWER_G3S5 *)

\* msleep(10)
G3S5_entry == Suspend(<<>>, "G3S5_msleep_3valw")

\* gpio_set_level(GPIO_SUSP_VR_EN, 1); power_wait_signals(IN_PGOOD_S5)
G3S5_enable == Suspend(<<GpioSet("GPIO_SUSP_VR_EN", 1)>>, "G3S5_wait_pgood_s5")

\* after the wait: timeout path, or deassert RSMRST# and msleep(10)
G3S5_waited ==
    IF power_wait_signals(IN_PGOOD_S5) # EC_SUCCESS
      THEN Return(<<GpioSet("GPIO_SUSP_VR_EN", 0)>> \o chipset_force_shutdown,
                  POWER_G3)
      ELSE Suspend(<<GpioSet("GPIO_PCH_RSMRST_L", 1)>>, "G3S5_msleep_susclk")

G3S5_done == Return(<<>>, POWER_S5)

G3S5_Enter == Step("loop", POWER_G3S5, G3S5_entry) /\ UNCHANGED <<i, flags>>
G3S5_Enable ==
    Step("G3S5_msleep_3valw", POWER_G3S5, G3S5_enable) /\ UNCHANGED <<i, flags>>
G3S5_Waited ==
    Step("G3S5_wait_pgood_s5", POWER_G3S5, G3S5_waited) /\ UNCHANGED <<i, flags>>
G3S5_Done ==
    Step("G3S5_msleep_susclk", POWER_G3S5, G3S5_done) /\ UNCHANGED <<i, flags>>

(* case POWER_S5S3 *)

\* power_wait_signals(IN_PGOOD_ALWAYS_ON)
S5S3_entry == Suspend(<<>>, "S5S3_wait_always_on")

\* S5->S3 that tries again in place when the always-on rails are not good.
S5S3_waited_always_on_Retries ==
    IF power_wait_signals(IN_PGOOD_ALWAYS_ON) # EC_SUCCESS
      THEN Return(chipset_force_shutdown, POWER_S5S3)
      ELSE Suspend(<<GpioSet("GPIO_PP1350_EN", 1)>>, "S5S3_wait_s3")

S5S3_waited_always_on ==
    IF power_wait_signals(IN_PGOOD_ALWAYS_ON) # EC_SUCCESS
      THEN Return(chipset_force_shutdown, POWER_S5G3)
      ELSE Suspend(<<GpioSet("GPIO_PP1350_EN", 1)>>, "S5S3_wait_s3")

S5S3_waited_s3_NoStartup ==
    IF power_wait_signals(IN_PGOOD_S3) # EC_SUCCESS
      THEN Return(chipset_force_shutdown, POWER_S5G3)
      ELSE Return(<<GpioSet("GPIO_ENABLE_TOUCHPAD", 1)>>, POWER_S3)
S5S3_waited_s3 ==
    IF power_wait_signals(IN_PGOOD_S3) # EC_SUCCESS
      THEN Return(chipset_force_shutdown, POWER_S5G3)
      ELSE Return(<<GpioSet("GPIO_ENABLE_TOUCHPAD", 1),
                    HookNotify("HOOK_CHIPSET_STARTUP")>>,
                  POWER_S3)

S5S3_Enter == Step("loop", POWER_S5S3, S5S3_entry) /\ UNCHANGED <<i, flags>>
S5S3_WaitedAlwaysOn ==
    Step("S5S3_wait_always_on", POWER_S5S3, S5S3_waited_always_on)
        /\ UNCHANGED <<i, flags>>
S5S3_WaitedS3 ==
    Step("S5S3_wait_s3", POWER_S5S3, S5S3_waited_s3) /\ UNCHANGED <<i, flags>>

(* case POWER_S3S0 *)

\* gpio_set_level(GPIO_PP5000_EN, 1); usleep(3 * MSEC)
S3S0_entry == Suspend(<<GpioSet("GPIO_PP5000_EN", 1)>>, "S3S0_usleep_3ms")

\* S3->S0 that enables +CPU_CORE together with the non-core rails.
S3S0_rails_CoreEarly ==
    Suspend(<<GpioSet("GPIO_PP3300_DX_EN", 1),
              GpioSet("GPIO_VCORE_EN", 1),
              WirelessSet("WIRELESS_ON"),
              GpioSet("GPIO_TOUCHSCREEN_RESET_L", 1)>>,
            "S3S0_wait_s0")

\* up to power_wait_signals(IN_PGOOD_S0)
S3S0_rails ==
    Suspend(<<GpioSet("GPIO_PP3300_DX_EN", 1),
              WirelessSet("WIRELESS_ON"),
              GpioSet("GPIO_TOUCHSCREEN_RESET_L", 1)>>,
            "S3S0_wait_s0")

\* S3->S0 that does not call disable_sleep.
S3S0_waited_SleepStaysPermitted ==
    IF power_wait_signals(IN_PGOOD_S0) # EC_SUCCESS
      THEN Return(chipset_force_shutdown \o
                  <<WirelessSet("WIRELESS_OFF"),
                    GpioSet("GPIO_PP3300_DX_EN", 0),
                    GpioSet("GPIO_PP5000_EN", 0),
                    GpioSet("GPIO_TOUCHSCREEN_RESET_L", 0)>>,
                  POWER_S3)
      ELSE Suspend(<<GpioSet("GPIO_VCORE_EN", 1),
                     HookNotify("HOOK_CHIPSET_RESUME")>>,
                   "S3S0_msleep_15")

\* S3->S0 whose rollback leaves the touchscreen out of reset.
S3S0_waited_TouchscreenLeftOn ==
    IF power_wait_signals(IN_PGOOD_S0) # EC_SUCCESS
      THEN Return(chipset_force_shutdown \o
                  <<WirelessSet("WIRELESS_OFF"),
                    GpioSet("GPIO_PP3300_DX_EN", 0),
                    GpioSet("GPIO_PP5000_EN", 0)>>,
                  POWER_S3)
      ELSE Suspend(<<GpioSet("GPIO_VCORE_EN", 1),
                     HookNotify("HOOK_CHIPSET_RESUME"),
                     DisableSleep>>,
                   "S3S0_msleep_15")

\* S3->S0 that goes on whatever the wait returned.
S3S0_waited_IgnoresTimeout ==
    Suspend(<<GpioSet("GPIO_VCORE_EN", 1),
              HookNotify("HOOK_CHIPSET_RESUME"),
              DisableSleep>>,
            "S3S0_msleep_15")

\* after the wait: rollback, or enable +CPU_CORE up to msleep(15)
S3S0_waited ==
    IF power_wait_signals(IN_PGOOD_S0) # EC_SUCCESS
      THEN Return(chipset_force_shutdown \o
                  <<WirelessSet("WIRELESS_OFF"),
                    GpioSet("GPIO_PP3300_DX_EN", 0),
                    GpioSet("GPIO_PP5000_EN", 0),
                    GpioSet("GPIO_TOUCHSCREEN_RESET_L", 0)>>,
                  POWER_S3)
      ELSE Suspend(<<GpioSet("GPIO_VCORE_EN", 1),
                     HookNotify("HOOK_CHIPSET_RESUME"),
                     DisableSleep>>,
                   "S3S0_msleep_15")

\* throttle, SYS and CORE PWROK, then i = 0 and the first usleep(MSEC)
S3S0_pwrok ==
    Suspend(<<GpioSet("GPIO_CPU_PROCHOT", throttle_cpu),
              GpioSet("GPIO_PCH_SYS_PWROK", 1),
              GpioSet("GPIO_PCH_CORE_PWROK", 1)>>,
            "S3S0_poll")

LpcGetPltrst(asserted) == <<"lpc_get_pltrst_asserted", "", BoolToInt(asserted)>>

\* The end of the poll that leaves fake_pltrst_timeout set.
S3S0_polled_FlagKept(n, asserted) ==
    IF n < PLTRST_POLLS /\ fake_pltrst_timeout = 0
      THEN [eff |-> <<LpcGetPltrst(asserted)>>,
            restart_from_s5 |-> restart_from_s5,
            fake_pltrst_timeout |-> fake_pltrst_timeout,
            ret |-> POWER_S0]
      ELSE [eff |-> <<LpcGetPltrst(asserted), ButtonRelease>>
                        \o chipset_force_shutdown,
            restart_from_s5 |-> 1,
            fake_pltrst_timeout |-> fake_pltrst_timeout,
            ret |-> POWER_S0]

\* The end of the poll that does not ask for the restart from S5.
S3S0_polled_NoRestart(n, asserted) ==
    IF n < PLTRST_POLLS /\ fake_pltrst_timeout = 0
      THEN [eff |-> <<LpcGetPltrst(asserted)>>,
            restart_from_s5 |-> restart_from_s5,
            fake_pltrst_timeout |-> fake_pltrst_timeout,
            ret |-> POWER_S0]
      ELSE [eff |-> <<LpcGetPltrst(asserted), ButtonRelease>>
                        \o chipset_force_shutdown,
            restart_from_s5 |-> restart_from_s5,
            fake_pltrst_timeout |-> 0,
            ret |-> POWER_S0]

\* After the poll loop, which ended with i = n and with its last
\* lpc_get_pltrst_asserted() returning `asserted`.
S3S0_polled(n, asserted) ==
    IF n < PLTRST_POLLS /\ fake_pltrst_timeout = 0
      THEN [eff |-> <<LpcGetPltrst(asserted)>>,
            restart_from_s5 |-> restart_from_s5,
            fake_pltrst_timeout |-> fake_pltrst_timeout,
            ret |-> POWER_S0]
      ELSE [eff |-> <<LpcGetPltrst(asserted), ButtonRelease>>
                        \o chipset_force_shutdown,
            restart_from_s5 |-> 1,
            fake_pltrst_timeout |-> 0,
            ret |-> POWER_S0]

S3S0_Enter == Step("loop", POWER_S3S0, S3S0_entry) /\ UNCHANGED <<i, flags>>
S3S0_Rails ==
    Step("S3S0_usleep_3ms", POWER_S3S0, S3S0_rails) /\ UNCHANGED <<i, flags>>
S3S0_Waited ==
    Step("S3S0_wait_s0", POWER_S3S0, S3S0_waited) /\ UNCHANGED <<i, flags>>
S3S0_Pwrok ==
    /\ Step("S3S0_msleep_15", POWER_S3S0, S3S0_pwrok)
    /\ i' = 0
    /\ UNCHANGED flags

\* One usleep(MSEC) of the poll is over and PLTRST# is still asserted with
\* the loop going on: i++ and the next usleep(MSEC).
S3S0_PollAgain_OffByOne ==
    /\ i + 1 <= PLTRST_POLLS
    /\ Step("S3S0_poll", POWER_S3S0, Suspend(<<>>, "S3S0_poll"))
    /\ i' = i + 1
    /\ UNCHANGED flags
S3S0_PollAgain ==
    /\ i + 1 < PLTRST_POLLS
    /\ Step("S3S0_poll", POWER_S3S0, Suspend(<<>>, "S3S0_poll"))
    /\ i' = i + 1
    /\ UNCHANGED flags

\* One usleep(MSEC) of the poll is over and the loop ends: PLTRST# is
\* deasserted (break), or it is asserted and i++ reaches the limit.
S3S0_PollEnd ==
    \E asserted \in BOOLEAN :
        /\ asserted => ~(i + 1 < PLTRST_POLLS)
        /\ LET n == IF asserted THEN i + 1 ELSE i
               r == S3S0_polled(n, asserted)
           IN  /\ Step("S3S0_poll", POWER_S3S0, Return(r.eff, r.ret))
               /\ restart_from_s5' = r.restart_from_s5
               /\ fake_pltrst_timeout' = r.fake_pltrst_timeout
        /\ i' = 0
        /\ UNCHANGED <<throttle_cpu, pause_in_s5>>

(* case POWER_S0S3 *)

\* #ifdef CONFIG_USB_PORT_POWER_IN_S3: a board option.  With it defined the
\* code leaves the 5V rail to usb_charge_ports_enabled(), which covers what
\* the code does without it (the rail is always turned off).
CONFIG_USB_PORT_POWER_IN_S3 == TRUE

\* S0->S3 that leaves PCH_CORE_PWROK asserted.
S0S3_entry_CorePwrokKept ==
    Suspend(<<HookNotify("HOOK_CHIPSET_SUSPEND"),
              GpioSet("GPIO_PCH_SYS_PWROK", 0),
              GpioSet("GPIO_VCORE_EN", 0),
              WirelessSet("WIRELESS_SUSPEND"),
              EnableSleep,
              GpioSet("GPIO_CPU_PROCHOT", 0)>>,
            "S0S3_msleep_7")

\* S0->S3 that notifies the suspend after the power-OK lines are cleared.
S0S3_entry_NotifiesLate ==
    Suspend(<<GpioSet("GPIO_PCH_SYS_PWROK", 0),
              GpioSet("GPIO_PCH_CORE_PWROK", 0),
              HookNotify("HOOK_CHIPSET_SUSPEND"),
              GpioSet("GPIO_VCORE_EN", 0),
              WirelessSet("WIRELESS_SUSPEND"),
              EnableSleep,
              GpioSet("GPIO_CPU_PROCHOT", 0)>>,
            "S0S3_msleep_7")

\* up to msleep(7)
S0S3_entry ==
    Suspend(<<HookNotify("HOOK_CHIPSET_SUSPEND"),
              GpioSet("GPIO_PCH_SYS_PWROK", 0),
              GpioSet("GPIO_PCH_CORE_PWROK", 0),
              GpioSet("GPIO_VCORE_EN", 0),
              WirelessSet("WIRELESS_SUSPEND"),
              EnableSleep,
              GpioSet("GPIO_CPU_PROCHOT", 0)>>,
            "S0S3_msleep_7")

\* Turn off power rails; usb_ports is usb_charge_ports_enabled().
S0S3_rails(usb_ports) ==
    IF CONFIG_USB_PORT_POWER_IN_S3 /\ usb_ports
      THEN Return(<<GpioSet("GPIO_PP3300_DX_EN", 0)>>, POWER_S3)
      ELSE Return(<<GpioSet("GPIO_PP3300_DX_EN", 0),
                    GpioSet("GPIO_PP5000_EN", 0)>>,
                  POWER_S3)

S0S3_Enter == Step("loop", POWER_S0S3, S0S3_entry) /\ UNCHANGED <<i, flags>>
S0S3_Rails ==
    \E usb_ports \in BOOLEAN :
        Step("S0S3_msleep_7", POWER_S0S3, S0S3_rails(usb_ports))
            /\ UNCHANGED <<i, flags>>

(* case POWER_S3S5 *)

\* S3->S5's rail shutdown without the shutdown notification.
S3S5_rails_NoShutdownNotice ==
    <<GpioSet("GPIO_PP5000_EN", 0),
      WirelessSet("WIRELESS_OFF"),
      GpioSet("GPIO_ENABLE_TOUCHPAD", 0),
      GpioSet("GPIO_TOUCHSCREEN_RESET_L", 0),
      GpioSet("GPIO_PP1350_EN", 0)>>

S3S5_rails ==
    <<HookNotify("HOOK_CHIPSET_SHUTDOWN"),
      GpioSet("GPIO_PP5000_EN", 0),
      WirelessSet("WIRELESS_OFF"),
      GpioSet("GPIO_ENABLE_TOUCHPAD", 0),
      GpioSet("GPIO_TOUCHSCREEN_RESET_L", 0),
      GpioSet("GPIO_PP1350_EN", 0)>>

\* S3->S5 that restarts without clearing restart_from_s5.
S3S5_entry_RestartKept ==
    IF restart_from_s5 # 0
      THEN [eff |-> S3S5_rails, pc |-> "S3S5_msleep_100", ret |-> "none",
            restart_from_s5 |-> restart_from_s5]
      ELSE [eff |-> S3S5_rails, pc |-> "loop",
            ret |-> IF pause_in_s5 # 0 THEN POWER_S5 ELSE POWER_S5G3,
            restart_from_s5 |-> restart_from_s5]

\* S3->S5 that reads pause_in_s5 the wrong way round.
S3S5_entry_PauseInverted ==
    IF restart_from_s5 # 0
      THEN [eff |-> S3S5_rails, pc |-> "S3S5_msleep_100", ret |-> "none",
            restart_from_s5 |-> 0]
      ELSE [eff |-> S3S5_rails, pc |-> "loop",
            ret |-> IF pause_in_s5 # 0 THEN POWER_S5G3 ELSE POWER_S5,
            restart_from_s5 |-> restart_from_s5]

\* up to msleep(100) when restarting from S5, else to the return
S3S5_entry_PauseFirst ==
    IF restart_from_s5 # 0 /\ pause_in_s5 # 0
      THEN [eff |-> S3S5_rails, pc |-> "S3S5_msleep_100", ret |-> "none",
            restart_from_s5 |-> 0]
      ELSE [eff |-> S3S5_rails, pc |-> "loop",
            ret |-> IF pause_in_s5 # 0 THEN POWER_S5 ELSE POWER_S5G3,
            restart_from_s5 |-> restart_from_s5]
S3S5_entry ==
    IF restart_from_s5 # 0
      THEN [eff |-> S3S5_rails, pc |-> "S3S5_msleep_100", ret |-> "none",
            restart_from_s5 |-> 0]
      ELSE [eff |-> S3S5_rails, pc |-> "loop",
            ret |-> IF pause_in_s5 # 0 THEN POWER_S5 ELSE POWER_S5G3,
            restart_from_s5 |-> restart_from_s5]

\* power_button_pch_pulse(); return POWER_G3S5
S3S5_restart == Return(<<ButtonPulse>>, POWER_G3S5)

S3S5_Enter ==
    /\ Step("loop", POWER_S3S5, S3S5_entry)
    /\ restart_from_s5' = S3S5_entry.restart_from_s5
    /\ UNCHANGED <<i, throttle_cpu, pause_in_s5, fake_pltrst_timeout>>
S3S5_Restart ==
    Step("S3S5_msleep_100", POWER_S3S5, S3S5_restart) /\ UNCHANGED <<i, flags>>

(* case POWER_S5G3 *)

handle_S5G3 ==
    Return(<<GpioSet("GPIO_PCH_RSMRST_L", 0), GpioSet("GPIO_SUSP_VR_EN", 0)>>,
           POWER_G3)

HandleS5G3 == Step("loop", POWER_S5G3, handle_S5G3) /\ UNCHANGED <<i, flags>>

(* ------------------------------------------------------------------ *)
(* The task loop's other input: a request to leave G3                  *)
(* ------------------------------------------------------------------ *)

\* G3 is left only on an external request, which moves the machine to G3->S5.
chipset_exit_hard_off ==
    /\ pc = "loop"
    /\ state = POWER_G3
    /\ state' = POWER_G3S5
    /\ UNCHANGED <<pc, i, outputs, signals, ext, flags, arg, log, history, others>>

(* ------------------------------------------------------------------ *)
(* Host and console commands (other tasks)                             *)
(* ------------------------------------------------------------------ *)

GsvValues == 0 .. MaxGsvValue

\* host_command_gsv: p->flags & EC_GSV_SET, p->value
host_command_gsv(set, value) ==
    /\ pc \notin {"reset", "sysjump"}
    /\ pause_in_s5' = (IF set THEN value ELSE pause_in_s5)
    /\ UNCHANGED <<state, pc, i, outputs, signals, ext, throttle_cpu,
                   restart_from_s5, fake_pltrst_timeout, arg, log, history, others>>

\* console_command_gsv: word is argv[1], "" when argc <= 1.  parse_bool
\* stores 1 or 0 for a word it knows and fails on any other.
console_command_gsv(word) ==
    /\ pc \notin {"reset", "sysjump"}
    /\ pause_in_s5' = (IF word = "on" THEN 1
                       ELSE IF word = "off" THEN 0
                       ELSE pause_in_s5)
    /\ UNCHANGED <<state, pc, i, outputs, signals, ext, throttle_cpu,
                   restart_from_s5, fake_pltrst_timeout, arg, log, history, others>>

\* console_command_powerfail
console_command_powerfail ==
    /\ pc \notin {"reset", "sysjump"}
    /\ fake_pltrst_timeout' = 1
    /\ UNCHANGED <<state, pc, i, outputs, signals, ext, throttle_cpu, pause_in_s5,
                   restart_from_s5, arg, log, history, others>>

HostCommandGsv ==
    \E set \in BOOLEAN, value \in GsvValues : host_command_gsv(set, value)
ConsoleCommandGsv ==
    \E word \in {"", "on", "off", "maybe"} : console_command_gsv(word)

(* ------------------------------------------------------------------ *)
(* Emergency actions, called from other tasks                          *)
(* ------------------------------------------------------------------ *)

\* chipset_in_state(CHIPSET_STATE_ON): the machine is in S0.
chipset_in_state_on == state = POWER_S0

\* A caller outside the power task runs eff: the writes go to the outputs
\* directly, and the state machine is told nothing.
External(eff) ==
    /\ pc \notin {"reset", "sysjump"}
    /\ gpio' = ApplyGpio(gpio, eff)
    /\ UNCHANGED <<state, pc, i, wireless, sleep_disabled, signals, flags,
                   arg, log, history, others>>

\* chipset_force_shutdown() called from outside the power task
ChipsetForceShutdown == External(chipset_force_shutdown) /\ UNCHANGED ext

\* chipset_throttle_cpu(throttle)
chipset_throttle_cpu(throttle) ==
    IF chipset_in_state_on
      THEN <<GpioSet("GPIO_CPU_PROCHOT", throttle)>>
      ELSE <<>>

ChipsetThrottleCpu ==
    \E throttle \in {0, 1} :
        External(chipset_throttle_cpu(throttle)) /\ UNCHANGED ext

\* chipset_reset without the "PWROK is already low" check.
chipset_reset_NoPwrokCheck(cold_reset) ==
    IF cold_reset
      THEN [eff |-> <<GpioSet("GPIO_PCH_SYS_PWROK", 0)>>,
            ext |-> "reset_cold_udelay"]
      ELSE [eff |-> <<GpioSet("GPIO_PCH_RCIN_L", 0)>>,
            ext |-> "reset_warm_usleep"]

\* chipset_reset(cold_reset) up to its delay: a cold reset is ignored when
\* PWROK is already low, else drops PWROK; a warm reset asserts RCIN#.
chipset_reset(cold_reset) ==
    IF cold_reset
      THEN IF gpio["GPIO_PCH_SYS_PWROK"] = 0
             THEN [eff |-> <<>>, ext |-> "idle"]
             ELSE [eff |-> <<GpioSet("GPIO_PCH_SYS_PWROK", 0)>>,
                   ext |-> "reset_cold_udelay"]
      ELSE [eff |-> <<GpioSet("GPIO_PCH_RCIN_L", 0)>>,
            ext |-> "reset_warm_usleep"]

\* chipset_reset after its delay: restore PWROK, or deassert RCIN#.
chipset_reset_restore ==
    IF ext = "reset_cold_udelay"
      THEN <<GpioSet("GPIO_PCH_SYS_PWROK", 1)>>
      ELSE <<GpioSet("GPIO_PCH_RCIN_L", 1)>>

ChipsetReset ==
    \E cold_reset \in BOOLEAN :
        /\ ext = "idle"
        /\ External(chipset_reset(cold_reset).eff)
        /\ ext' = chipset_reset(cold_reset).ext

ChipsetResetRestore ==
    /\ ext # "idle"
    /\ External(chipset_reset_restore)
    /\ ext' = "idle"

(* ------------------------------------------------------------------ *)
(* The hardware                                                        *)
(* ------------------------------------------------------------------ *)

\* A power-good or sleep line changes level.
SignalChange ==
    /\ \E s \in Signals :
          signals' = (IF s \in signals THEN signals \ {s} ELSE signals \cup {s})
    /\ UNCHANGED <<state, pc, i, outputs, ext, flags, arg, log, history, others>>

(* ------------------------------------------------------------------ *)
(* Specification                                                       *)
(* ------------------------------------------------------------------ *)

\* The steps that take a suspended power_handle_state call further.
ScriptStep ==
    \/ G3S5_Enable \/ G3S5_Waited \/ G3S5_Done
    \/ S5S3_WaitedAlwaysOn \/ S5S3_WaitedS3
    \/ S3S0_Rails \/ S3S0_Waited \/ S3S0_Pwrok \/ S3S0_PollAgain
    \/ S3S0_PollEnd
    \/ S0S3_Rails
    \/ S3S5_Restart

\* The task loop calls power_handle_state(state).
CallStep ==
    \/ HandleG3 \/ HandleS5 \/ HandleS3 \/ HandleS0
    \/ G3S5_Enter \/ S5S3_Enter \/ S3S0_Enter \/ S0S3_Enter \/ S3S5_Enter
    \/ HandleS5G3

Next ==
    \/ power_chipset_init
    \/ CallStep
    \/ ScriptStep
    \/ chipset_exit_hard_off
    \/ HostCommandGsv
    \/ ConsoleCommandGsv
    \/ console_command_powerfail
    \/ SignalChange

Spec == Init /\ [][Next]_vars

\* A sleep ends and a wait succeeds or times out: a suspended call goes on.
FairSpec == Spec /\ WF_vars(ScriptStep)

\* The emergency actions, which other tasks call at any time.
EmergencyStep ==
    \/ ChipsetForceShutdown
    \/ ChipsetThrottleCpu
    \/ ChipsetReset
    \/ ChipsetResetRestore

\* The power task and the hardware together with the emergency actions.
\* pause_in_s5 keeps its default: its commands, which decide nothing but the
\* state S3->S5 returns, are not part of this specification.
ExtNext ==
    \/ power_chipset_init
    \/ CallStep
    \/ ScriptStep
    \/ chipset_exit_hard_off
    \/ console_command_powerfail
    \/ SignalChange
    \/ EmergencyStep

ExtSpec == Init /\ [][ExtNext]_vars

(* ------------------------------------------------------------------ *)
(* The power-up scenario: a boot where nothing fails                   *)
(* ------------------------------------------------------------------ *)

\* The AP is off (both sleep lines asserted); the rails are in any state.
BootInit ==
    /\ Entry
    /\ signals \in SUBSET (Signals \ IN_ALL_PM_SLP_DEASSERTED)
    /\ tracing = TRUE

\* Once power_chipset_init has returned G3, a rail becomes good or a sleep
\* line deasserts, SLP_S4 before SLP_S3; no line goes back.
BootSignalRise(s) ==
    /\ pc \notin {"reset", "sysjump"}
    /\ s \notin signals
    /\ s = "X86_SLP_S3_DEASSERTED" => "X86_SLP_S4_DEASSERTED" \in signals
    /\ signals' = signals \cup {s}
    /\ UNCHANGED <<state, pc, i, outputs, ext, flags, arg, log, history, others>>

\* The power task when every wait finds its rails good in time and PLTRST#
\* deasserts within the poll, with the request to leave G3.
BootTask ==
    \/ power_chipset_init
    \/ chipset_exit_hard_off
    \/ HandleG3 \/ HandleS5 \/ HandleS3 \/ HandleS0
    \/ G3S5_Enter \/ G3S5_Enable \/ G3S5_Done
    \/ (power_has_signals(IN_PGOOD_S5) /\ G3S5_Waited)
    \/ S5S3_Enter
    \/ (power_has_signals(IN_PGOOD_ALWAYS_ON) /\ S5S3_WaitedAlwaysOn)
    \/ (power_has_signals(IN_PGOOD_S3) /\ S5S3_WaitedS3)
    \/ S3S0_Enter \/ S3S0_Rails \/ S3S0_Pwrok \/ S3S0_PollAgain
    \/ (power_has_signals(IN_PGOOD_S0) /\ S3S0_Waited)
    \/ (S3S0_PollEnd /\ ~InLog(LpcGetPltrst(TRUE), log'))

BootNext ==
    \/ BootTask
    \/ HostCommandGsv
    \/ ConsoleCommandGsv
    \/ \E s \in Signals : BootSignalRise(s)

\* The task runs, the request to leave G3 is made, and every rail comes up
\* and every sleep line deasserts in the end.
BootSpec ==
    /\ BootInit
    /\ [][BootNext]_vars
    /\ WF_vars(BootTask)
    /\ \A s \in Signals : WF_vars(BootSignalRise(s))

TypeOK ==
    /\ state \in PowerStates
    /\ i \in 0 .. (PLTRST_POLLS - 1)
    /\ gpio \in [Outputs -> {0, 1}]
    /\ wireless \in WirelessStates
    /\ sleep_disabled \in BOOLEAN
    /\ signals \subseteq Signals
    /\ pause_in_s5 \in GsvValues
    /\ restart_from_s5 \in {0, 1}
    /\ fake_pltrst_timeout \in {0, 1}
    /\ arg \in PowerStates \cup {"none"}
    /\ Len(hooks) <= MaxHooks
    /\ ext \in {"idle", "reset_cold_udelay", "reset_warm_usleep"}

(* ------------------------------------------------------------------ *)
(* Properties                                                          *)
(* ------------------------------------------------------------------ *)

Asserted(s) == s \in signals

\* A required rail is missing at the time of the call.
RailMissingS0 == ~(IN_PGOOD_S0 \subseteq signals)
RailMissingS3 == ~(IN_PGOOD_S3 \subseteq signals)

\* C1: a power_handle_state call in S0 (S3) made while a rail required for
\* S0 (S3) is missing returns S0->S3 (S3->S5), whatever the sleep lines and
\* the lid say.
C1_FaultMovesTowardOff ==
    [][/\ (HandleS0 /\ RailMissingS0) => state' = POWER_S0S3
       /\ (HandleS3 /\ RailMissingS3) => state' = POWER_S3S5]_vars

\* C1 witness: S0 was left for S0->S3 on a missing rail although the AP
\* keeps SLP_S3 deasserted.
C1_Witness ==
    /\ pc = "loop"
    /\ arg = POWER_S0
    /\ state = POWER_S0S3
    /\ InLog(ForceShutdownCall, log)
    /\ RailMissingS0
    /\ Asserted("X86_SLP_S3_DEASSERTED")

\* The transition table of the steady states, from the lines as they are.
TableS5 == IF Asserted("X86_SLP_S4_DEASSERTED") THEN POWER_S5S3 ELSE POWER_S5
TableS3 ==
    IF RailMissingS3 THEN POWER_S3S5
    ELSE IF Asserted("X86_SLP_S3_DEASSERTED") THEN POWER_S3S0
    ELSE IF ~Asserted("X86_SLP_S4_DEASSERTED") THEN POWER_S3S5
    ELSE POWER_S3
TableS0 ==
    IF RailMissingS0 \/ ~Asserted("X86_SLP_S3_DEASSERTED")
      THEN POWER_S0S3 ELSE POWER_S0

\* C3: in the steady states power_handle_state returns exactly what the
\* transition table says, with the rail fault first, then SLP_S3, then SLP_S4
\* in S3; G3 returns G3.
C3_SteadyTable ==
    [][/\ HandleG3 => state' = POWER_G3
       /\ HandleS5 => state' = TableS5
       /\ HandleS3 => state' = TableS3
       /\ HandleS0 => state' = TableS0]_vars

\* C3 witness: S3 was left for S3->S0 with the rails good, SLP_S3 deasserted
\* and SLP_S4 asserted (the case where the order of the two checks shows).
C3_Witness ==
    /\ pc = "loop"
    /\ arg = POWER_S3
    /\ state = POWER_S3S0
    /\ ~RailMissingS3
    /\ Asserted("X86_SLP_S3_DEASSERTED")
    /\ ~Asserted("X86_SLP_S4_DEASSERTED")

\* C5: a steady-state call that finds a required rail missing performs
\* chipset_force_shutdown and leaves the steady state; a call that finds the
\* rails good performs no forced shutdown, whatever the sleep lines ask for.
C5_FaultForcesShutdown ==
    [][/\ (HandleS0 /\ RailMissingS0) =>
             /\ InLog(ForceShutdownCall, log')
             /\ state' # POWER_S0
             /\ gpio'["GPIO_PCH_SYS_PWROK"] = 0
             /\ gpio'["GPIO_PCH_RSMRST_L"] = 0
       /\ (HandleS3 /\ RailMissingS3) =>
             /\ InLog(ForceShutdownCall, log')
             /\ state' # POWER_S3
             /\ gpio'["GPIO_PCH_SYS_PWROK"] = 0
             /\ gpio'["GPIO_PCH_RSMRST_L"] = 0
       /\ (HandleS0 /\ ~RailMissingS0) => ~InLog(ForceShutdownCall, log')
       /\ (HandleS3 /\ ~RailMissingS3) => ~InLog(ForceShutdownCall, log')]_vars

\* C5 witness: S3 was left on a missing rail, with the forced shutdown done.
C5_Witness ==
    /\ pc = "loop"
    /\ arg = POWER_S3
    /\ state = POWER_S3S5
    /\ RailMissingS3
    /\ InLog(ForceShutdownCall, log)
    /\ gpio["GPIO_PCH_SYS_PWROK"] = 0
    /\ gpio["GPIO_PCH_RSMRST_L"] = 0

\* C10: power_handle_state(G3) returns G3 and does nothing: no output is
\* written, no notification fired, no flag changed, on every call.
C10_G3DoesNothing ==
    [][HandleG3 =>
          /\ state' = POWER_G3
          /\ log' = <<>>
          /\ UNCHANGED <<pc, outputs, flags>>]_vars

\* C10 witness: a call was made in G3 with every signal asserted, and the
\* machine is still in G3.
C10_Witness ==
    /\ pc = "loop"
    /\ arg = POWER_G3
    /\ state = POWER_G3
    /\ log = <<>>
    /\ signals = IN_ALL_S0

\* What the step added to the log of the call in progress.
Added == SubSeq(log', Len(log) + 1, Len(log'))

\* The step enables nothing and notifies nobody.
NothingEnabled(eff) ==
    \A k \in 1 .. Len(eff) :
        /\ ~IsHook(eff[k])
        /\ eff[k][1] = "gpio_set_level" => eff[k][3] = 0
        /\ eff[k][1] = "wireless_set_state" => eff[k][2] = "WIRELESS_OFF"
        /\ eff[k][1] # "disable_sleep"

\* The call ends on a wait timeout: forced shutdown, return of ret, nothing
\* of the rest of the script.
TimedOutTo(ret) ==
    /\ pc' = "loop"
    /\ state' = ret
    /\ InLog(ForceShutdownCall, Added)
    /\ NothingEnabled(Added)
    /\ gpio'["GPIO_PCH_SYS_PWROK"] = 0
    /\ gpio'["GPIO_PCH_RSMRST_L"] = 0

\* C4: when a power_wait_signals of G3->S5, S5->S3 or S3->S0 times out, the
\* call performs chipset_force_shutdown and returns G3, S5->G3 resp. S3; after
\* the wait it enables no rail, does not deassert RSMRST# and fires no
\* notification.
C4_TimeoutStepsBack ==
    [][/\ (G3S5_Waited /\ ~(IN_PGOOD_S5 \subseteq signals))
             => TimedOutTo(POWER_G3)
       /\ (S5S3_WaitedAlwaysOn /\ ~(IN_PGOOD_ALWAYS_ON \subseteq signals))
             => TimedOutTo(POWER_S5G3)
       /\ (S5S3_WaitedS3 /\ ~(IN_PGOOD_S3 \subseteq signals))
             => TimedOutTo(POWER_S5G3)
       /\ (S3S0_Waited /\ ~(IN_PGOOD_S0 \subseteq signals))
             => TimedOutTo(POWER_S3)]_vars

\* C4 witness: the S3->S0 wait timed out with the 5V rail not good, and the
\* call returned S3 after the forced shutdown, never having enabled +CPU_CORE.
C4_Witness ==
    /\ pc = "loop"
    /\ arg = POWER_S3S0
    /\ state = POWER_S3
    /\ InLog(ForceShutdownCall, log)
    /\ ~InLog(GpioSet("GPIO_VCORE_EN", 1), log)
    /\ ~InLog(HookNotify("HOOK_CHIPSET_RESUME"), log)

\* C6 as claimed: in S0 with every signal of IN_ALL_S0 set but PGOOD_VCORE,
\* the call returns S0->S3 after a forced shutdown.
C6_CoreDropLeavesS0 ==
    [][(HandleS0 /\ signals = IN_ALL_S0 \ IN_PGOOD_VCORE) =>
          /\ state' = POWER_S0S3
          /\ InLog(ForceShutdownCall, log')]_vars

\* C6 amended: in S0 with every signal of IN_ALL_S0 set but one, the call
\* returns S0->S3 after a forced shutdown when the missing one is PGOOD_PP5000
\* or PGOOD_S5 (the rails required for S0), and returns S0 with no forced
\* shutdown when it is PGOOD_VCORE.
C6_RequiredRailDropLeavesS0 ==
    [][/\ \A s \in {"X86_PGOOD_PP5000", "X86_PGOOD_S5"} :
             (HandleS0 /\ signals = IN_ALL_S0 \ {s}) =>
                 /\ state' = POWER_S0S3
                 /\ InLog(ForceShutdownCall, log')
                 /\ gpio'["GPIO_PCH_SYS_PWROK"] = 0
       /\ (HandleS0 /\ signals = IN_ALL_S0 \ IN_PGOOD_VCORE) =>
             /\ state' = POWER_S0
             /\ log' = <<>>]_vars

\* C6 witness: S0 was left for S0->S3 with only PGOOD_PP5000 missing.
C6_Witness ==
    /\ pc = "loop"
    /\ arg = POWER_S0
    /\ state = POWER_S0S3
    /\ signals = IN_ALL_S0 \ IN_PGOOD_PP5000
    /\ InLog(ForceShutdownCall, log)

\* The last call was S3->S0 and its poll ended with the 50th
\* lpc_get_pltrst_asserted() still true.
PollExhausted ==
    /\ pc = "loop"
    /\ arg = POWER_S3S0
    /\ InLog(LpcGetPltrst(TRUE), log)

\* C7 as claimed: when the PLTRST# poll of S3->S0 is exhausted, the call
\* returns S3 with restart_from_s5 set.
C7_PollTimeoutReturnsS3 ==
    PollExhausted => (state = POWER_S3 /\ restart_from_s5 = 1)

\* C7 amended: when the PLTRST# poll of S3->S0 is exhausted, the call returns
\* S0 with restart_from_s5 set, after releasing the power button and forcing
\* the shutdown.
C7_PollTimeoutReturnsS0 ==
    PollExhausted =>
        /\ state = POWER_S0
        /\ restart_from_s5 = 1
        /\ InLog(ButtonRelease, log)
        /\ InLog(ForceShutdownCall, log)

\* C7 witness: the poll was exhausted and the call returned.
C7_Witness ==
    /\ PollExhausted
    /\ state = POWER_S0
    /\ restart_from_s5 = 1
    /\ gpio["GPIO_PCH_SYS_PWROK"] = 0

\* What S3->S5 switches off, in order.
C8_RailsOff ==
    <<HookNotify("HOOK_CHIPSET_SHUTDOWN"),
      GpioSet("GPIO_PP5000_EN", 0),
      WirelessSet("WIRELESS_OFF"),
      GpioSet("GPIO_ENABLE_TOUCHPAD", 0),
      GpioSet("GPIO_TOUCHSCREEN_RESET_L", 0),
      GpioSet("GPIO_PP1350_EN", 0)>>

\* C8: an S3->S5 entered with restart_from_s5 set switches off what a normal
\* S3->S5 switches off, clears the flag, then issues one power-button pulse
\* and returns G3->S5, whatever pause_in_s5 is.
C8_RestartFromS5 ==
    [][/\ S3S5_Enter => log' = C8_RailsOff
       /\ (S3S5_Enter /\ restart_from_s5 # 0) =>
             /\ restart_from_s5' = 0
             /\ pc' = "S3S5_msleep_100"
             /\ state' = POWER_S3S5
       /\ S3S5_Restart =>
             /\ log' = C8_RailsOff \o <<ButtonPulse>>
             /\ restart_from_s5' = 0
             /\ pc' = "loop"
             /\ state' = POWER_G3S5]_vars

\* C8 witness: a restart from S5 returned G3->S5 with pause_in_s5 false.
C8_Witness ==
    /\ pc = "loop"
    /\ arg = POWER_S3S5
    /\ state = POWER_G3S5
    /\ pause_in_s5 = 0
    /\ restart_from_s5 = 0
    /\ InLog(ButtonPulse, log)

\* A power_handle_state call is in progress (the task is suspended in it).
InCall == pc \notin {"reset", "sysjump", "loop"}

\* C2: every power_handle_state call returns, and returns one of the ten
\* states: a suspended call always gets back to the task loop (a wait
\* succeeds or times out, the PLTRST# poll stays below 50 iterations).
C2_CallTerminates ==
    /\ [](InCall => <>(pc = "loop"))
    /\ [](state \in PowerStates /\ i < PLTRST_POLLS)

\* C2 witness: a call of a transitional state that went through all 50
\* polls has returned.
C2_Witness ==
    /\ pc = "loop"
    /\ arg = POWER_S3S0
    /\ state \in PowerStates
    /\ InLog(LpcGetPltrst(TRUE), log)
    /\ InLog(ButtonRelease, log)

\* The way up: the only state changes of a boot where nothing fails.
BootPath ==
    {<<POWER_G3, POWER_G3S5>>, <<POWER_G3S5, POWER_S5>>,
     <<POWER_S5, POWER_S5S3>>, <<POWER_S5S3, POWER_S3>>,
     <<POWER_S3, POWER_S3S0>>, <<POWER_S3S0, POWER_S0>>}

\* C9: from G3 after power_chipset_init, with the request to leave G3 made,
\* every rail good in time, SLP_S4 then SLP_S3 deasserting, PLTRST#
\* deasserting within the poll and no fault injected, the machine reaches S0
\* by G3->S5, S5, S5->S3, S3, S3->S0 and has then fired one startup and one
\* resume notification, in that order, and no other.
C9_BootReachesS0 ==
    /\ <>(state = POWER_S0 /\ pc = "loop")
    /\ [][state' # state => <<state, state'>> \in BootPath]_vars
    /\ [](state = POWER_S0 =>
            hooks = <<"HOOK_CHIPSET_STARTUP", "HOOK_CHIPSET_RESUME">>)
    /\ [](hooks \in {<<>>, <<"HOOK_CHIPSET_STARTUP">>,
                     <<"HOOK_CHIPSET_STARTUP", "HOOK_CHIPSET_RESUME">>})

\* C9 witness: the boot ended in S0, the last call being S3->S0 with its
\* poll ended by PLTRST# deasserting, with startup then resume fired.
C9_Witness ==
    /\ tracing
    /\ pc = "loop"
    /\ state = POWER_S0
    /\ arg = POWER_S3S0
    /\ InLog(LpcGetPltrst(FALSE), log)
    /\ hooks = <<"HOOK_CHIPSET_STARTUP", "HOOK_CHIPSET_RESUME">>

\* C11: power_chipset_init in an image that was jumped to, with every signal
\* of IN_ALL_S0 set, returns S0, writes no output and no wireless state,
\* fires no notification, and disables the deep sleep of the idle task.
C11_JumpedInS0 ==
    [][(power_chipset_init /\ system_jumped_to_this_image
            /\ IN_ALL_S0 \subseteq signals) =>
          /\ state' = POWER_S0
          /\ log' = <<DisableSleep>>
          /\ sleep_disabled'
          /\ UNCHANGED <<gpio, wireless, hooks>>]_vars

\* C11 witness: the image was jumped to with the AP running, and
\* power_chipset_init has returned S0 with the outputs as they were.
C11_Witness ==
    /\ pc = "loop"
    /\ arg = "none"
    /\ state = POWER_S0
    /\ log = <<DisableSleep>>
    /\ sleep_disabled
    /\ gpio = RestS0
    /\ wireless = "WIRELESS_ON"
    /\ signals = IN_ALL_S0

\* The rail enables and the reset and power-OK lines the state machine
\* drives; each is low in G3.
C12_Lines ==
    {"GPIO_SUSP_VR_EN", "GPIO_PP1350_EN", "GPIO_PP3300_DX_EN",
     "GPIO_PP5000_EN", "GPIO_VCORE_EN", "GPIO_ENABLE_TOUCHPAD",
     "GPIO_PCH_RSMRST_L", "GPIO_TOUCHSCREEN_RESET_L", "GPIO_PCH_SYS_PWROK",
     "GPIO_PCH_CORE_PWROK"}

\* C12: power_chipset_init returns G3 unless the image was jumped to with
\* the full S0 signal set; when it was jumped to with an incomplete S0 signal
\* set, every rail enable, reset line and power-OK line is at its G3 level
\* and wireless is off on return.
C12_ForcesEveryLineToG3 ==
    [][power_chipset_init =>
          /\ ~(system_jumped_to_this_image /\ IN_ALL_S0 \subseteq signals)
                => state' = POWER_G3
          /\ (system_jumped_to_this_image /\ ~(IN_ALL_S0 \subseteq signals))
                => /\ \A o \in C12_Lines : gpio'[o] = 0
                   /\ wireless' = "WIRELESS_OFF"]_vars

\* What a step of the power task ran: the whole log when the step starts a
\* call, else what it added to the log.
Ran == IF pc = "loop" THEN log' ELSE Added

\* chipset_force_shutdown has run and returned: within a step of the power
\* task, or called from another task.
ForcedShutdown ==
    \/ UNCHANGED <<pc, state, log, ext>> /\ ChipsetForceShutdown
    \/ /\ InLog(ForceShutdownCall, Ran)
       /\ <<pc, state, log>>' # <<pc, state, log>>
       /\ CallStep \/ ScriptStep

\* C13 as claimed: once chipset_force_shutdown has returned, PCH_SYS_PWROK
\* and PCH_CORE_PWROK are both low.
C13_ForceShutdownLowersBothPwrok ==
    [][ForcedShutdown =>
          /\ gpio'["GPIO_PCH_SYS_PWROK"] = 0
          /\ gpio'["GPIO_PCH_CORE_PWROK"] = 0]_vars

\* C13 amended: once chipset_force_shutdown has returned, PCH_SYS_PWROK and
\* PCH_RSMRST_L are both low, and PCH_CORE_PWROK is as it was before.
C13_ForceShutdownLowersSysPwrokAndRsmrst ==
    [][ForcedShutdown =>
          /\ gpio'["GPIO_PCH_SYS_PWROK"] = 0
          /\ gpio'["GPIO_PCH_RSMRST_L"] = 0
          /\ gpio'["GPIO_PCH_CORE_PWROK"] = gpio["GPIO_PCH_CORE_PWROK"]]_vars

\* C13 witness: a call in S0 forced the shutdown on a missing rail and
\* returned with PCH_CORE_PWROK still high.
C13_Witness ==
    /\ pc = "loop"
    /\ arg = POWER_S0
    /\ state = POWER_S0S3
    /\ InLog(ForceShutdownCall, log)
    /\ gpio["GPIO_PCH_SYS_PWROK"] = 0
    /\ gpio["GPIO_PCH_RSMRST_L"] = 0
    /\ gpio["GPIO_PCH_CORE_PWROK"] = 1

\* A power_handle_state call returns: arg' is the state it was called with,
\* state' the state it returns.
Returned ==
    /\ pc' = "loop"
    /\ <<pc, state, arg, log>>' # <<pc, state, arg, log>>
    /\ CallStep \/ ScriptStep

\* The named source and the named target of each transitional state.
SourceOf ==
    [t \in TransitionalStates |->
        CASE t = POWER_G3S5 -> POWER_G3
          [] t = POWER_S5G3 -> POWER_S5
          [] t = POWER_S5S3 -> POWER_S5
          [] t = POWER_S3S0 -> POWER_S3
          [] t = POWER_S3S5 -> POWER_S3
          [] t = POWER_S0S3 -> POWER_S0]
TargetOf ==
    [t \in TransitionalStates |->
        CASE t = POWER_G3S5 -> POWER_S5
          [] t = POWER_S5G3 -> POWER_G3
          [] t = POWER_S5S3 -> POWER_S3
          [] t = POWER_S3S0 -> POWER_S0
          [] t = POWER_S3S5 -> POWER_S5
          [] t = POWER_S0S3 -> POWER_S3]

\* C14 as claimed: a transitional state is returned only by a call made with
\* its named source steady state, and a call made with a transitional state
\* returns a state other than itself.
C14_TransitionalOnlyFromSource ==
    [][Returned =>
          /\ state' \in TransitionalStates => arg' = SourceOf[state']
          /\ arg' \in TransitionalStates => state' # arg']_vars

\* Every pair (state of the call, state returned) of power_handle_state.
ReturnTable ==
    {<<POWER_G3, POWER_G3>>,
     <<POWER_S5, POWER_S5>>, <<POWER_S5, POWER_S5S3>>,
     <<POWER_S3, POWER_S3>>, <<POWER_S3, POWER_S3S0>>,
     <<POWER_S3, POWER_S3S5>>,
     <<POWER_S0, POWER_S0>>, <<POWER_S0, POWER_S0S3>>,
     <<POWER_G3S5, POWER_S5>>, <<POWER_G3S5, POWER_G3>>,
     <<POWER_S5S3, POWER_S3>>, <<POWER_S5S3, POWER_S5G3>>,
     <<POWER_S3S0, POWER_S0>>, <<POWER_S3S0, POWER_S3>>,
     <<POWER_S0S3, POWER_S3>>,
     <<POWER_S3S5, POWER_S5>>, <<POWER_S3S5, POWER_S5G3>>,
     <<POWER_S3S5, POWER_G3S5>>,
     <<POWER_S5G3, POWER_G3>>}

\* C14 amended: S5->S3, S3->S0, S3->S5 and S0->S3 are returned only by a call
\* made with their named source; S5->G3 is returned only by S5->S3 (wait
\* timeout) and by S3->S5 (pause_in_s5 false), and G3->S5 only by S3->S5
\* (restart from S5); a call made with a transitional state returns its
\* named target, its named source or one of these two, never itself.
C14_ReturnsFollowTable ==
    [][Returned =>
          /\ <<arg', state'>> \in ReturnTable
          /\ arg' \in TransitionalStates =>
                /\ state' # arg'
                /\ state' \in {TargetOf[arg'], SourceOf[arg'],
                               POWER_S5G3, POWER_G3S5}
          /\ (state' = POWER_S5G3 /\ arg' = POWER_S5S3)
                => InLog(ForceShutdownCall, log')
          /\ (state' = POWER_S5G3 /\ arg' = POWER_S3S5) => pause_in_s5 = 0
          /\ state' = POWER_G3S5 => InLog(ButtonPulse, log')]_vars

\* C14 witness: S3->S5 returned G3->S5, and S5->S3 returned S5->G3.
C14_Witness ==
    /\ pc = "loop"
    /\ \/ arg = POWER_S3S5 /\ state = POWER_G3S5 /\ InLog(ButtonPulse, log)
       \/ arg = POWER_S5S3 /\ state = POWER_S5G3

\* C15: pause_in_s5 starts true and is written by the host command and the
\* console command only; an S3->S5 entered with no restart pending returns
\* S5 when pause_in_s5 is true at that time and S5->G3 when it is false.
C15_PauseInS5 ==
    /\ pause_in_s5 = 1
    /\ [][/\ (S3S5_Enter /\ restart_from_s5 = 0) =>
                /\ pc' = "loop"
                /\ state' = (IF pause_in_s5 # 0 THEN POWER_S5
                             ELSE POWER_S5G3)
          /\ pause_in_s5' # pause_in_s5 =>
                HostCommandGsv \/ ConsoleCommandGsv]_vars

\* C15 witness: pause_in_s5 was set to false and an S3->S5 with no restart
\* pending returned S5->G3.
C15_Witness ==
    /\ pc = "loop"
    /\ arg = POWER_S3S5
    /\ state = POWER_S5G3
    /\ pause_in_s5 = 0
    /\ ~InLog(ButtonPulse, log)

\* C16: a request to set pause_in_s5 to a value that is not a boolean is
\* rejected and leaves it unchanged, so that pause_in_s5 is 0 or 1 whenever
\* the state machine reads it.
C16_PauseInS5IsBoolean ==
    pause_in_s5 \in {0, 1}

\* A command handler writes a tunable.
TunableWrite ==
    HostCommandGsv \/ ConsoleCommandGsv \/ console_command_powerfail

\* C17: a tunable written while the power task is suspended inside a
\* transition script does not change what the rest of that script does and
\* returns: the only remaining piece that reads a tunable, the end of the
\* PLTRST# poll of S3->S0, does and returns the same before and after the
\* write, for every count and level the poll can end with.
C17_WriteInsideScriptChangesNothing ==
    [][(InCall /\ state = POWER_S3S0 /\ TunableWrite) =>
          \A n \in 0 .. PLTRST_POLLS, asserted \in BOOLEAN :
              S3S0_polled(n, asserted)' = S3S0_polled(n, asserted)]_vars

\* The outputs the state machine drives.
TaskOutputs == Outputs \ {"GPIO_PCH_RCIN_L"}

\* C18: every write to an output the state machine drives is made by the
\* power task, in power_chipset_init or in power_handle_state: no step of
\* another context changes the level of such an output.
C18_OnlyPowerTaskWrites ==
    [][(\E o \in TaskOutputs : gpio'[o] # gpio[o]) =>
          power_chipset_init \/ CallStep \/ ScriptStep]_vars

\* C19: the powerfail command sets the flag; the end of the PLTRST# poll of
\* an S3->S0 that finds the flag set takes the timeout path (power-button
\* release, forced shutdown, restart_from_s5 set) even when PLTRST# was
\* deasserted in time, and clears the flag; one that finds the flag clear
\* and PLTRST# deasserted in time takes the normal path.
C19_FaultInjectionIsOneShot ==
    [][/\ console_command_powerfail => fake_pltrst_timeout' = 1
       /\ (pc = "S3S0_poll" /\ pc' = "loop" /\ S3S0_PollEnd) =>
             /\ state' = POWER_S0
             /\ fake_pltrst_timeout' = 0
             /\ fake_pltrst_timeout # 0 =>
                   /\ InLog(ButtonRelease, log')
                   /\ InLog(ForceShutdownCall, log')
                   /\ restart_from_s5' = 1
             /\ (fake_pltrst_timeout = 0 /\ InLog(LpcGetPltrst(FALSE), log'))
                   => /\ ~InLog(ButtonRelease, log')
                      /\ ~InLog(ForceShutdownCall, log')
                      /\ UNCHANGED <<restart_from_s5, gpio>>]_vars

\* C19 witness: an S3->S0 whose poll saw PLTRST# deasserted took the timeout
\* path, and the flag is clear again.
C19_Witness ==
    /\ pc = "loop"
    /\ arg = POWER_S3S0
    /\ state = POWER_S0
    /\ InLog(LpcGetPltrst(FALSE), log)
    /\ InLog(ButtonRelease, log)
    /\ InLog(ForceShutdownCall, log)
    /\ restart_from_s5 = 1
    /\ fake_pltrst_timeout = 0

\* C20: chipset_reset(cold) does nothing when PCH_SYS_PWROK is low; else it
\* drives PCH_SYS_PWROK low and, after its delay, high again, the level it
\* had before the call.  chipset_reset(warm) drives PCH_RCIN_L low and, after
\* its delay, high.  Neither writes another output nor changes the power
\* state, and PCH_RCIN_L is low during a warm reset only.
C20_ResetPulses ==
    /\ [](gpio["GPIO_PCH_RCIN_L"] = 0 <=> ext = "reset_warm_usleep")
    /\ [][ext' # ext =>
             /\ UNCHANGED <<state, pc, wireless, sleep_disabled, flags>>
             /\ ext' = "reset_cold_udelay" =>
                   /\ gpio["GPIO_PCH_SYS_PWROK"] = 1
                   /\ gpio' = [gpio EXCEPT !["GPIO_PCH_SYS_PWROK"] = 0]
             /\ ext = "reset_cold_udelay" =>
                   gpio' = [gpio EXCEPT !["GPIO_PCH_SYS_PWROK"] = 1]
             /\ ext' = "reset_warm_usleep" =>
                   gpio' = [gpio EXCEPT !["GPIO_PCH_RCIN_L"] = 0]
             /\ ext = "reset_warm_usleep" =>
                   gpio' = [gpio EXCEPT !["GPIO_PCH_RCIN_L"] = 1]]_vars

\* C20 witness: a cold reset of a machine in S0 is in its delay, with
\* PCH_SYS_PWROK driven low and every other output as S3->S0 left it.
C20_Witness ==
    /\ ext = "reset_cold_udelay"
    /\ pc = "loop"
    /\ state = POWER_S0
    /\ gpio = [RestS0 EXCEPT !["GPIO_PCH_SYS_PWROK"] = 0]

\* The last call was a G3->S5 that timed out waiting for the always-on rail
\* and returned G3.
G3S5TimedOut ==
    /\ pc = "loop"
    /\ state = POWER_G3
    /\ arg = POWER_G3S5
    /\ InLog(ForceShutdownCall, log)

\* C21 as claimed: after a G3->S5 that timed out and returned G3, the next
\* call of the control loop enters G3->S5 again by itself.
C21_RetriesWithoutRequest ==
    [][(G3S5TimedOut /\ HandleG3) => state' = POWER_G3S5]_vars

\* C21 amended: a G3->S5 whose wait for the always-on rail times out returns
\* G3; the call the control loop then makes in G3 returns G3, and G3 is left
\* only by the external request, which moves the machine to G3->S5.
C21_RestsInG3UntilRequest ==
    [][/\ (pc = "G3S5_wait_pgood_s5" /\ ~(IN_PGOOD_S5 \subseteq signals)
              /\ G3S5_Waited)
             => (pc' = "loop" /\ state' = POWER_G3)
       /\ (G3S5TimedOut /\ HandleG3) => state' = POWER_G3
       /\ (pc = "loop" /\ state = POWER_G3 /\ state' # POWER_G3)
             => (chipset_exit_hard_off /\ state' = POWER_G3S5)]_vars

\* C21 witness: the always-on rail is not good, G3->S5 has timed out and
\* the machine is back in G3 with the suspend regulator off.
C21_Witness ==
    /\ G3S5TimedOut
    /\ ~(IN_PGOOD_S5 \subseteq signals)
    /\ gpio["GPIO_SUSP_VR_EN"] = 0
    /\ gpio["GPIO_PCH_RSMRST_L"] = 0

\* What a successful S3->S0 does before the wait for the non-core rails,
\* between the wait and the PLTRST# poll, in order.
C22_BeforeWait ==
    <<GpioSet("GPIO_PP5000_EN", 1),
      GpioSet("GPIO_PP3300_DX_EN", 1),
      WirelessSet("WIRELESS_ON"),
      GpioSet("GPIO_TOUCHSCREEN_RESET_L", 1)>>
C22_AfterWait ==
    <<GpioSet("GPIO_VCORE_EN", 1),
      HookNotify("HOOK_CHIPSET_RESUME"),
      DisableSleep,
      GpioSet("GPIO_CPU_PROCHOT", throttle_cpu),
      GpioSet("GPIO_PCH_SYS_PWROK", 1),
      GpioSet("GPIO_PCH_CORE_PWROK", 1)>>

\* The log is the start of seq.
IsPrefix(l, seq) == Len(l) <= Len(seq) /\ l = SubSeq(seq, 1, Len(l))

\* C22: an S3->S0 does, in this order: PP5000 on, PP3300_DX on, wireless on,
\* touchscreen reset released, wait for the non-core rails, VCORE_EN on,
\* resume notification, deep sleep disabled, CPU_PROCHOT written, SYS_PWROK
\* then CORE_PWROK raised, PLTRST# polled.  Up to the end of the wait it has
\* done nothing else than the first four, and it goes past the wait only
\* with the non-core rails good.
C22_S3S0Order ==
    /\ []((pc \in {"S3S0_usleep_3ms", "S3S0_wait_s0"}) =>
              IsPrefix(log, C22_BeforeWait))
    /\ []((pc \in {"S3S0_msleep_15", "S3S0_poll"}) =>
              IsPrefix(log, C22_BeforeWait \o C22_AfterWait))
    /\ []((pc = "loop" /\ arg = POWER_S3S0 /\ state = POWER_S0) =>
              /\ Len(log) > Len(C22_BeforeWait \o C22_AfterWait)
              /\ IsPrefix(C22_BeforeWait \o C22_AfterWait, log)
              /\ log[Len(C22_BeforeWait \o C22_AfterWait) + 1][1]
                    = "lpc_get_pltrst_asserted")
    /\ [][(pc = "S3S0_wait_s0" /\ pc' = "S3S0_msleep_15") =>
              /\ IN_PGOOD_S0 \subseteq signals
              /\ log = C22_BeforeWait]_vars

\* C22 witness: an S3->S0 is through, PLTRST# having deasserted.
C22_Witness ==
    /\ pc = "loop"
    /\ arg = POWER_S3S0
    /\ state = POWER_S0
    /\ log = C22_BeforeWait \o C22_AfterWait \o <<LpcGetPltrst(FALSE)>>

\* C23: when the wait of S3->S0 for the non-core rails times out, the call
\* returns S3 with wireless off, PP3300_DX_EN, PP5000_EN and
\* TOUCHSCREEN_RESET_L low; during that call VCORE_EN, PCH_SYS_PWROK and
\* PCH_CORE_PWROK were not raised, deep sleep was not disabled and
\* restart_from_s5 was not written.
C23_RollbackOfS3S0 ==
    [][(pc = "S3S0_wait_s0" /\ pc' = "loop") =>
          /\ ~(IN_PGOOD_S0 \subseteq signals)
          /\ state' = POWER_S3
          /\ wireless' = "WIRELESS_OFF"
          /\ gpio'["GPIO_PP3300_DX_EN"] = 0
          /\ gpio'["GPIO_PP5000_EN"] = 0
          /\ gpio'["GPIO_TOUCHSCREEN_RESET_L"] = 0
          /\ ~InLog(GpioSet("GPIO_VCORE_EN", 1), log')
          /\ ~InLog(GpioSet("GPIO_PCH_SYS_PWROK", 1), log')
          /\ ~InLog(GpioSet("GPIO_PCH_CORE_PWROK", 1), log')
          /\ ~InLog(DisableSleep, log')
          /\ UNCHANGED <<sleep_disabled, restart_from_s5>>
          /\ gpio'["GPIO_VCORE_EN"] = gpio["GPIO_VCORE_EN"]
          /\ gpio'["GPIO_PCH_CORE_PWROK"] = gpio["GPIO_PCH_CORE_PWROK"]]_vars

\* C23 witness: S3->S0 was rolled back with the 5V rail not good, and the
\* machine is in S3 with the rails of S0 off.
C23_Witness ==
    /\ pc = "loop"
    /\ arg = POWER_S3S0
    /\ state = POWER_S3
    /\ "X86_PGOOD_PP5000" \notin signals
    /\ wireless = "WIRELESS_OFF"
    /\ gpio["GPIO_PP3300_DX_EN"] = 0
    /\ gpio["GPIO_PP5000_EN"] = 0
    /\ gpio["GPIO_TOUCHSCREEN_RESET_L"] = 0
    /\ gpio["GPIO_VCORE_EN"] = 0
    /\ ~sleep_disabled

\* The notifications in a log, in order.
HooksIn(l) == Notified(l)

ApAssertsSleep ==
    /\ gpio_get_level("GPIO_PCH_SLP_S3_L") = 0
    /\ gpio_get_level("GPIO_PCH_SLP_S4_L") = 0

\* C25: after chipset_force_shutdown was called in S3 (by the S3 call that
\* found the S3 rails missing), with the AP asserting SLP_S3# and SLP_S4#,
\* the machine goes on to G3 for either value of pause_in_s5: the S3->S5
\* call that follows does not leave the machine in S5 with the next call
\* returning S5 again, where it would rest short of G3.
C25_ForcedShutdownGoesOnToG3 ==
    [][(/\ pc = "loop"
        /\ state = POWER_S3S5
        /\ arg = POWER_S3
        /\ InLog(ForceShutdownCall, log)
        /\ ApAssertsSleep
        /\ arg' = POWER_S3S5
        /\ pc' = "loop")
          => ~(state' = POWER_S5 /\ handle_S5'.ret = POWER_S5)]_vars

\* C26: throttle_cpu, which S3->S0 writes to CPU_PROCHOT, holds the most
\* recent value passed to chipset_throttle_cpu: every call
\* chipset_throttle_cpu(throttle) leaves throttle_cpu = throttle.
C26_ThrottleRequestIsStored ==
    [][\A throttle \in {0, 1} :
          (External(chipset_throttle_cpu(throttle)) /\ UNCHANGED ext)
              => throttle_cpu' = throttle]_vars

\* C27: every power_handle_state(POWER_S3) call first reads the lid and
\* writes TOUCHSCREEN_RESET_L to it (low, in reset, iff the lid is closed),
\* whatever it returns; every S3->S0 that returns S0 leaves
\* TOUCHSCREEN_RESET_L high, also after an S3 call that found the lid closed.
C27_TouchscreenReset ==
    /\ [][(/\ pc = "loop"
           /\ state = POWER_S3
           /\ arg' = POWER_S3
           /\ CallStep)
             => \E lid_open \in BOOLEAN :
                   /\ Len(log') >= 2
                   /\ log'[1] = LidIsOpen(lid_open)
                   /\ log'[2] = GpioSet("GPIO_TOUCHSCREEN_RESET_L",
                                        BoolToInt(lid_open))
                   /\ \A k \in 3 .. Len(log') :
                         log'[k][2] # "GPIO_TOUCHSCREEN_RESET_L"
                   /\ gpio'["GPIO_TOUCHSCREEN_RESET_L"] = BoolToInt(lid_open)]_vars
    /\ [][(/\ state = POWER_S3S0
           /\ state' = POWER_S0
           /\ ScriptStep)
             => gpio'["GPIO_TOUCHSCREEN_RESET_L"] = 1]_vars

\* C27 witness: an S3 call found the lid closed, put the touchscreen in
\* reset and returned S3->S0, which is about to run.
C27_Witness ==
    /\ pc = "loop"
    /\ arg = POWER_S3
    /\ state = POWER_S3S0
    /\ log = <<LidIsOpen(FALSE), GpioSet("GPIO_TOUCHSCREEN_RESET_L", 0)>>
    /\ gpio["GPIO_TOUCHSCREEN_RESET_L"] = 0

\* Where the run's notifications stand, read off the power task's position:
\* "off" when none was fired or the last one was the shutdown, "standby"
\* when the last one was the startup or a suspend, "on" when it was a resume.
HookPhase ==
    CASE state \in {POWER_G3, POWER_S5, POWER_G3S5, POWER_S5G3, POWER_S5S3}
           -> "off"
      [] state = POWER_S3 -> "standby"
      [] state = POWER_S0 -> "on"
      [] state = POWER_S3S0 ->
           IF pc # "loop" /\ InLog(HookNotify("HOOK_CHIPSET_RESUME"), log)
             THEN "on" ELSE "standby"
      [] state = POWER_S0S3 -> IF pc = "loop" THEN "on" ELSE "standby"
      [] state = POWER_S3S5 -> IF pc = "loop" THEN "standby" ELSE "off"

\* The automaton of (startup (resume suspend)* shutdown)*.
HookAutomaton ==
    {<<"off", "HOOK_CHIPSET_STARTUP", "standby">>,
     <<"standby", "HOOK_CHIPSET_RESUME", "on">>,
     <<"on", "HOOK_CHIPSET_SUSPEND", "standby">>,
     <<"standby", "HOOK_CHIPSET_SHUTDOWN", "off">>}

\* The notifications the step fires, in order.
Fired ==
    IF pc = "loop"
      THEN (IF <<state, arg, log>>' # <<state, arg, log>> /\ CallStep
              THEN Notified(log') ELSE <<>>)
      ELSE Notified(Added)

\* C28: in a run that starts in G3 the notifications fired are a prefix of
\* (startup (resume suspend)* shutdown)*.  The run starts in phase "off"
\* (power_chipset_init returned G3); every step that fires a notification
\* fires one and takes a transition of the automaton; every other step,
\* wait-timeout rollbacks and the restart from S5 included, keeps the phase.
C28_NotificationsFollowAutomaton ==
    /\ [](pc \in {"reset", "sysjump"} => HookPhase = "off" /\ log = <<>>)
    /\ [][IF pc \in {"reset", "sysjump"}
            THEN Fired = <<>> /\ (state' = POWER_G3 => HookPhase' = "off")
          ELSE IF Fired = <<>>
            THEN HookPhase' = HookPhase
          ELSE /\ Len(Fired) = 1
               /\ <<HookPhase, Fired[1], HookPhase'>> \in HookAutomaton]_vars

\* C28 witness: the restart path, S3->S5 has fired the shutdown and returned
\* G3->S5 after a PLTRST# timeout.
C28_Witness ==
    /\ pc = "loop"
    /\ arg = POWER_S3S5
    /\ state = POWER_G3S5
    /\ Notified(log) = <<"HOOK_CHIPSET_SHUTDOWN">>
    /\ HookPhase = "off"

\* The rail enables and PCH lines that are low when everything is off.
G3Lines ==
    {"GPIO_SUSP_VR_EN", "GPIO_PP1350_EN", "GPIO_PP5000_EN",
     "GPIO_PP3300_DX_EN", "GPIO_VCORE_EN", "GPIO_ENABLE_TOUCHPAD",
     "GPIO_PCH_RSMRST_L", "GPIO_PCH_SYS_PWROK", "GPIO_PCH_CORE_PWROK"}

\* C29: whenever the machine is at rest in G3 (power_chipset_init forced G3,
\* S5->G3 returned G3 or G3->S5 failed), every rail enable and RSMRST#,
\* SYS_PWROK and CORE_PWROK are low.
C29_AllOffInG3 ==
    (pc = "loop" /\ state = POWER_G3) => \A o \in G3Lines : gpio[o] = 0

\* The effects the step runs, in order; <<>> for a step of another process.
StepEffects ==
    IF pc \in {"reset", "sysjump"} THEN log'
    ELSE IF pc = "loop"
      THEN (IF <<state, arg, log>>' # <<state, arg, log>> /\ CallStep
              THEN log' ELSE <<>>)
    ELSE Added

\* RSMRST# is deasserted (high) only with the suspend regulator enabled.
RsmrstWithinRegulator(g) ==
    g["GPIO_PCH_RSMRST_L"] = 1 => g["GPIO_SUSP_VR_EN"] = 1

\* C30: PCH_RSMRST_L is high only while SUSP_VR_EN is high, between the
\* steps and after every single gpio_set_level inside a step, so RSMRST# is
\* asserted before the regulator is disabled on every path,
\* power_chipset_init's forced G3 included.
C30_RsmrstOnlyWhileRegulatorOn ==
    /\ [] RsmrstWithinRegulator(gpio)
    /\ [][\A k \in 0 .. Len(StepEffects) :
             RsmrstWithinRegulator(
                 ApplyGpio(gpio, SubSeq(StepEffects, 1, k)))]_vars

\* VCORE_EN is high only with both non-core rails enabled.
CoreWithinRails(g) ==
    g["GPIO_VCORE_EN"] = 1 =>
        g["GPIO_PP5000_EN"] = 1 /\ g["GPIO_PP3300_DX_EN"] = 1

\* C31: VCORE_EN is high only while PP5000_EN and PP3300_DX_EN are both
\* high, between the steps and after every single write inside a step: the
\* core rail is enabled last and disabled first.
C31_CoreRailLastUpFirstDown ==
    /\ [] CoreWithinRails(gpio)
    /\ [][\A k \in 0 .. Len(StepEffects) :
             CoreWithinRails(ApplyGpio(gpio, SubSeq(StepEffects, 1, k)))]_vars

\* C31 witness: S3->S0 has returned S0 with the core rail and both non-core
\* rails enabled.
C31_Witness ==
    /\ pc = "loop"
    /\ arg = POWER_S3S0
    /\ state = POWER_S0
    /\ gpio["GPIO_VCORE_EN"] = 1
    /\ gpio["GPIO_PP5000_EN"] = 1
    /\ gpio["GPIO_PP3300_DX_EN"] = 1

\* The core rail enable and the two power-OK lines.
CoreLines == {"GPIO_VCORE_EN", "GPIO_PCH_SYS_PWROK", "GPIO_PCH_CORE_PWROK"}

\* C32: at rest in S3, S5 or G3 after the power task's own transitions,
\* VCORE_EN, PCH_SYS_PWROK and PCH_CORE_PWROK are low; a step raises one of
\* them only inside S3->S0 past its wait for the S0 rails, and S0->S3 has
\* lowered all three when it returns S3.
C32_CoreLinesLowBelowS0 ==
    /\ []((pc = "loop" /\ state \in {POWER_S3, POWER_S5, POWER_G3})
            => \A o \in CoreLines : gpio[o] = 0)
    /\ [][(\E o \in CoreLines : InLog(GpioSet(o, 1), StepEffects))
            => /\ state = POWER_S3S0
               /\ pc \in {"S3S0_wait_s0", "S3S0_msleep_15"}
               /\ IN_PGOOD_S0 \subseteq signals \/ pc = "S3S0_msleep_15"]_vars
    /\ [](arg = POWER_S0S3 =>
            /\ InLog(GpioSet("GPIO_PCH_SYS_PWROK", 0), log)
            /\ InLog(GpioSet("GPIO_PCH_CORE_PWROK", 0), log)
            /\ InLog(GpioSet("GPIO_VCORE_EN", 0), log))

\* C32 witness: S0->S3 has returned S3 with the RAM rail still up, and the
\* three lines are low.
C32_Witness ==
    /\ pc = "loop"
    /\ arg = POWER_S0S3
    /\ state = POWER_S3
    /\ \A o \in CoreLines : gpio[o] = 0
    /\ gpio["GPIO_PP1350_EN"] = 1

\* C33: after power_chipset_init and after every power_handle_state call,
\* deep sleep is not permitted (SLEEP_MASK_AP_RUN set) when the state is S0
\* and permitted when the state is S3, S5 or G3, also after the S3->S0
\* rollback and after the PLTRST# timeout.
C33_SleepPermissionFollowsState ==
    pc = "loop" =>
        /\ state = POWER_S0 => sleep_disabled
        /\ state \in {POWER_S3, POWER_S5, POWER_G3} => ~sleep_disabled

\* C33 witness: S3->S0 has returned S0 on the PLTRST# timeout, with deep
\* sleep not permitted.
C33_Witness ==
    /\ pc = "loop"
    /\ arg = POWER_S3S0
    /\ state = POWER_S0
    /\ InLog(ForceShutdownCall, log)
    /\ sleep_disabled

\* S3->S0 has returned S0 through its success path (PLTRST# deasserted in
\* time, no forced shutdown in the call).
HealthyS0 ==
    /\ pc = "loop"
    /\ state = POWER_S0
    /\ arg = POWER_S3S0
    /\ ~InLog(ForceShutdownCall, log)

C35_S0OnlyOutOfResumeReset == HealthyS0 => gpio["GPIO_PCH_RSMRST_L"] = 1

(* ------------------------------------------------------------------ *)
(* The console UART's transmit ring (common/uart_buffering.c)          *)
(* ------------------------------------------------------------------ *)

\* Characters handed to __tx_char in one run. They are numbered 1, 2, ...
\* in the order of the calls, so that every one can be told from the
\* others; none is a newline (which __tx_char turns into two calls).
MaxChars == 4

\* Characters the transmit FIFO takes in one uart_process_output at most.
MaxFifo == 2

TX_BUF_NEXT(k) == (k + 1) % CONFIG_UART_TX_BUF_SIZE
TX_BUF_DIFF(a, b) == (a - b) % CONFIG_UART_TX_BUF_SIZE

\* What the UART's code never touches.
UartRest == <<power_vars, motion_vars, lightbar_vars>>

\* __tx_char, line 69, in a caller that may be preempted:
\* tx_buf_next = TX_BUF_NEXT(tx_buf_head).
tx_char_next ==
    /\ tx_pc = "idle"
    /\ ~(fl_pc = "loop" /\ fl_irq)
    /\ tx_count < MaxChars
    /\ tx_count' = tx_count + 1
    /\ tx_c' = tx_count + 1
    /\ tx_buf_next' = TX_BUF_NEXT(tx_buf_head)
    /\ tx_pc' = "line70"
    /\ UNCHANGED <<tx_buf, tx_buf_head, tx_buf_tail, uart_suspended, tx_irq,
                   accepted, dropped, sent, fl_pc, fl_irq, UartRest>>

\* lines 70-71: if (tx_buf_next == tx_buf_tail) return 1.
tx_char_full ==
    /\ tx_pc = "line70"
    /\ ~(fl_pc = "loop" /\ fl_irq)
    /\ IF tx_buf_next = tx_buf_tail
       THEN /\ dropped' = dropped \cup {tx_c}
            /\ tx_pc' = "returned"
       ELSE /\ dropped' = dropped
            /\ tx_pc' = "line73"
    /\ UNCHANGED <<tx_buf, tx_buf_head, tx_buf_tail, uart_suspended, tx_irq,
                   tx_buf_next, tx_c, tx_count, accepted, sent, fl_pc,
                   fl_irq, UartRest>>

\* line 73: tx_buf[tx_buf_head] = c; tx_buf_head is volatile and read again.
tx_char_store ==
    /\ tx_pc = "line73"
    /\ ~(fl_pc = "loop" /\ fl_irq)
    /\ tx_buf' = [tx_buf EXCEPT ![tx_buf_head] = tx_c]
    /\ tx_pc' = "line74"
    /\ UNCHANGED <<tx_buf_head, tx_buf_tail, uart_suspended, tx_irq,
                   tx_buf_next, tx_c, tx_count, accepted, dropped, sent,
                   fl_pc, fl_irq, UartRest>>

\* lines 74-75: tx_buf_head = tx_buf_next; return 0.
tx_char_head ==
    /\ tx_pc = "line74"
    /\ ~(fl_pc = "loop" /\ fl_irq)
    /\ tx_buf_head' = tx_buf_next
    /\ accepted' = Append(accepted, tx_c)
    /\ tx_pc' = "returned"
    /\ UNCHANGED <<tx_buf, tx_buf_tail, uart_suspended, tx_irq, tx_buf_next,
                   tx_c, tx_count, dropped, sent, fl_pc, fl_irq, UartRest>>

\* uart_putc after __tx_char has returned: if (!uart_suspended)
\* uart_tx_start(), which enables the transmit interrupt.
uart_putc_start ==
    /\ tx_pc = "returned"
    /\ ~(fl_pc = "loop" /\ fl_irq)
    /\ tx_irq' = (IF uart_suspended THEN tx_irq ELSE TRUE)
    /\ tx_pc' = "idle"
    /\ UNCHANGED <<tx_buf, tx_buf_head, tx_buf_tail, uart_suspended,
                   tx_buf_next, tx_c, tx_count, accepted, dropped, sent,
                   fl_pc, fl_irq, UartRest>>

\* uart_putc(c) in a higher-priority task or an interrupt handler: nothing
\* of this model runs between its steps. It may run wherever the
\* preemptible caller is.
uart_putc_preempting ==
    /\ tx_count < MaxChars
    /\ LET c == tx_count + 1
           next == TX_BUF_NEXT(tx_buf_head)
       IN  /\ tx_count' = c
           /\ IF next = tx_buf_tail
              THEN /\ dropped' = dropped \cup {c}
                   /\ UNCHANGED <<tx_buf, tx_buf_head, accepted>>
              ELSE /\ tx_buf' = [tx_buf EXCEPT ![tx_buf_head] = c]
                   /\ tx_buf_head' = next
                   /\ accepted' = Append(accepted, c)
                   /\ dropped' = dropped
    /\ tx_irq' = (IF uart_suspended THEN tx_irq ELSE TRUE)
    /\ UNCHANGED <<tx_buf_tail, uart_suspended, tx_pc, tx_buf_next, tx_c,
                   sent, fl_pc, fl_irq, UartRest>>

\* uart_process_output() when uart_tx_ready() holds for n characters: what
\* it does to the tail, the wire and the transmit interrupt.
uart_process_output(n) ==
    IF uart_suspended
    THEN UNCHANGED <<tx_buf_tail, sent, tx_irq>>
    ELSE LET have == TX_BUF_DIFF(tx_buf_head, tx_buf_tail)
             m == IF n < have THEN n ELSE have
         IN  /\ sent' = sent \o [k \in 1 .. m |->
                           tx_buf[(tx_buf_tail + k - 1)
                                  % CONFIG_UART_TX_BUF_SIZE]]
             /\ tx_buf_tail' = (tx_buf_tail + m) % CONFIG_UART_TX_BUF_SIZE
             /\ tx_irq' = (IF tx_buf_tail' = tx_buf_head THEN FALSE
                           ELSE tx_irq)

\* The transmit interrupt, when enabled, calls uart_process_output.
UartTxInterrupt ==
    /\ tx_irq
    /\ \E n \in 0 .. MaxFifo : uart_process_output(n)
    /\ UNCHANGED <<tx_buf, tx_buf_head, uart_suspended, tx_pc, tx_buf_next,
                   tx_c, tx_count, accepted, dropped, fl_pc, fl_irq,
                   UartRest>>

\* uart_process_input() reading a flow-control character.
uart_process_input(c) ==
    /\ uart_suspended' = (c = "XOFF")
    /\ tx_irq' = (c = "XON")
    /\ UNCHANGED <<tx_buf, tx_buf_head, tx_buf_tail, tx_pc, tx_buf_next,
                   tx_c, tx_count, accepted, dropped, sent, fl_pc, fl_irq,
                   UartRest>>

UartRxInterrupt == \E c \in {"XOFF", "XON"} : uart_process_input(c)

\* uart_flush_output() is called, lines 270-272: a suspended UART ignores
\* the request.
uart_flush_output ==
    /\ fl_pc \in {"idle", "returned"}
    /\ \E irq \in BOOLEAN : fl_irq' = irq
    /\ fl_pc' = (IF uart_suspended THEN "returned" ELSE "loop")
    /\ UNCHANGED <<tx_buf, tx_buf_head, tx_buf_tail, uart_suspended, tx_irq,
                   tx_pc, tx_buf_next, tx_c, tx_count, accepted, dropped,
                   sent, UartRest>>

\* One test of the loop of lines 275-295 and its body, or the return once
\* the ring is empty (uart_tx_flush waits for the FIFO, which drains).
uart_flush_loop ==
    /\ fl_pc = "loop"
    /\ IF tx_buf_head # tx_buf_tail
       THEN /\ fl_pc' = "loop"
            /\ IF fl_irq
               THEN \E n \in 0 .. MaxFifo : uart_process_output(n)
               ELSE tx_irq' = TRUE /\ UNCHANGED <<tx_buf_tail, sent>>
       ELSE /\ fl_pc' = "returned"
            /\ UNCHANGED <<tx_buf_tail, sent, tx_irq>>
    /\ UNCHANGED <<tx_buf, tx_buf_head, uart_suspended, tx_pc, tx_buf_next,
                   tx_c, tx_count, accepted, dropped, fl_irq, UartRest>>

UartInit == Init /\ pc = "reset" /\ signals = {}

UartNext ==
    \/ tx_char_next
    \/ tx_char_full
    \/ tx_char_store
    \/ tx_char_head
    \/ uart_putc_start
    \/ uart_putc_preempting
    \/ UartTxInterrupt
    \/ UartRxInterrupt
    \/ uart_flush_output
    \/ uart_flush_loop

UartSpec == UartInit /\ [][UartNext]_vars

\* The flush loop runs on, and an enabled transmit interrupt is served.
UartFairSpec ==
    UartSpec /\ WF_vars(uart_flush_loop) /\ WF_vars(UartTxInterrupt)

\* The characters in the ring, oldest first.
RingSeq ==
    [k \in 1 .. TX_BUF_DIFF(tx_buf_head, tx_buf_tail) |->
        tx_buf[(tx_buf_tail + k - 1) % CONFIG_UART_TX_BUF_SIZE]]

\* C37: every character for which __tx_char returned 0 is in the ring
\* exactly once and transmitted in order (what was sent, followed by what
\* the ring holds, is the accepted characters in the order they were
\* accepted), and __tx_char returns 1 only when the ring is full, also
\* when a higher-priority caller queues output between its steps.
C37_AcceptedQueuedOnceInOrder ==
    /\ [](sent \o RingSeq = accepted)
    /\ [][dropped' # dropped
             => TX_BUF_NEXT(tx_buf_head) = tx_buf_tail]_vars

\* C38: uart_flush_output terminates. Called while the UART is not
\* suspended (so that it enters its loop), with the transmit interrupt
\* served and the FIFO draining, it returns in the end, the ring empty at
\* its return, even if uart_process_input receives an XOFF while it loops.
C38_FlushReturns ==
    (fl_pc = "loop") ~> (fl_pc = "returned" /\ tx_buf_head = tx_buf_tail)

(* ------------------------------------------------------------------ *)
(* The accelerometer samples shared with the host                      *)
(* (common/motion_sense.c)                                             *)
(* ------------------------------------------------------------------ *)

\* Width of the sample-id field of the status byte.
SampleIdBits == 1

\* Iterations of the task loop in one run.
MaxIterations == 3

EC_MEMMAP_ACC_STATUS_SAMPLE_ID_MASK == 2 ^ SampleIdBits - 1

\* What the motion-sense task and the host reader never touch.
MotionRest == <<power_vars, uart_vars, lightbar_vars>>

\* Iterations of the task loop that have published their sample.
Completed == IF ms_pc = "sleep" THEN ms_iter ELSE ms_iter - 1

\* line 259: *lpc_status |= EC_MEMMAP_ACC_STATUS_BUSY_BIT.
ms_set_busy ==
    /\ ms_pc = "sleep"
    /\ ms_iter < MaxIterations
    /\ lpc_status' = [lpc_status EXCEPT !.busy = TRUE]
    /\ ms_iter' = ms_iter + 1
    /\ ms_k' = 0
    /\ ms_pc' = "copy"
    /\ UNCHANGED <<lpc_data, sample_id, h_pc, h_k, h_id, h_data, h_start,
                   MotionRest>>

\* lines 269-275, one word at a time: lpc_data[ms_k] = this iteration's.
ms_copy ==
    /\ ms_pc = "copy"
    /\ lpc_data' = [lpc_data EXCEPT ![ms_k] = ms_iter]
    /\ ms_k' = ms_k + 1
    /\ ms_pc' = (IF ms_k + 1 = NumWords THEN "publish" ELSE "copy")
    /\ UNCHANGED <<lpc_status, sample_id, ms_iter, h_pc, h_k, h_id, h_data,
                   h_start, MotionRest>>

\* The same step when sample_id is left as it is.
ms_publish_SameId ==
    /\ ms_pc = "publish"
    /\ sample_id' = sample_id
    /\ lpc_status' = [busy |-> FALSE, sample_id |-> sample_id']
    /\ ms_pc' = "sleep"
    /\ UNCHANGED <<lpc_data, ms_k, ms_iter, h_pc, h_k, h_id, h_data, h_start,
                   MotionRest>>

\* lines 281-283: sample_id = (sample_id + 1) & MASK;
\* *lpc_status = PRESENCE_BIT | sample_id; then the task sleeps.
ms_publish ==
    /\ ms_pc = "publish"
    /\ sample_id' = (sample_id + 1) % (EC_MEMMAP_ACC_STATUS_SAMPLE_ID_MASK + 1)
    /\ lpc_status' = [busy |-> FALSE, sample_id |-> sample_id']
    /\ ms_pc' = "sleep"
    /\ UNCHANGED <<lpc_data, ms_k, ms_iter, h_pc, h_k, h_id, h_data, h_start,
                   MotionRest>>

\* The host starts a read (again): it reads the status byte and goes on to
\* the data if the busy bit is not set.
HostReadStatus ==
    /\ h_pc \in {"idle", "accepted", "rejected"}
    /\ h_id' = lpc_status.sample_id
    /\ h_start' = Completed
    /\ h_data' = <<>>
    /\ h_k' = 0
    /\ h_pc' = (IF lpc_status.busy THEN "rejected" ELSE "data")
    /\ UNCHANGED <<lpc_status, lpc_data, sample_id, ms_pc, ms_k, ms_iter,
                   MotionRest>>

\* The host reads the next data word.
HostReadWord ==
    /\ h_pc = "data"
    /\ h_data' = Append(h_data, lpc_data[h_k])
    /\ h_k' = h_k + 1
    /\ h_pc' = (IF h_k + 1 = NumWords THEN "check" ELSE "data")
    /\ UNCHANGED <<lpc_status, lpc_data, sample_id, ms_pc, ms_k, ms_iter,
                   h_id, h_start, MotionRest>>

\* The host reads the status byte again and accepts what it read if the
\* busy bit is not set and the counter is the one it read before.
HostCheckStatus ==
    /\ h_pc = "check"
    /\ h_pc' = (IF ~lpc_status.busy /\ lpc_status.sample_id = h_id
                THEN "accepted" ELSE "rejected")
    /\ UNCHANGED <<lpc_status, lpc_data, sample_id, ms_pc, ms_k, ms_iter,
                   h_k, h_id, h_data, h_start, MotionRest>>

MotionInit == Init /\ pc = "reset" /\ signals = {}

MotionNext ==
    \/ ms_set_busy
    \/ ms_copy
    \/ ms_publish
    \/ HostReadStatus
    \/ HostReadWord
    \/ HostCheckStatus

MotionSpec == MotionInit /\ [][MotionNext]_vars

\* The host holds words written by two different iterations.
Torn == \E a, b \in 1 .. Len(h_data) : h_data[a] # h_data[b]

\* C39 as stated: a host that follows the handshake never accepts a torn
\* sample.
C39_NeverTorn == h_pc = "accepted" => ~Torn

\* C39: a host that follows the handshake (busy bit clear and the same
\* sample id before and after reading the data words) accepts no torn
\* sample unless the sample-id counter has gone all the way round, the
\* task having completed at least MASK + 1 iterations between the host's
\* two reads of the status byte.
C39_TornOnlyAfterWrap ==
    h_pc = "accepted" /\ Torn
        => Completed - h_start >= EC_MEMMAP_ACC_STATUS_SAMPLE_ID_MASK + 1

\* The host has accepted a whole sample published by the task, which is
\* already copying the next one.
C39_Witness ==
    /\ h_pc = "accepted"
    /\ ~Torn
    /\ h_data[1] >= 1
    /\ ms_pc = "copy"

(* ------------------------------------------------------------------ *)
(* The lightbar task (common/lightbar.c)                               *)
(* ------------------------------------------------------------------ *)

\* The sequences of lightbar_cmds[].
LIGHTBAR_SEQUENCES ==
    {"ERROR", "S5", "S3", "S0", "S5S3", "S3S0", "S0S3", "S3S5", "STOP",
     "RUN", "PULSE", "TEST", "KONAMI", "TAP"}

\* The sequences of the power states and of the transitions between them.
PowerSequences == {"S5", "S3", "S0", "S5S3", "S3S0", "S0S3", "S3S5"}

\* The sequences after which the task goes back to st.prev_seq.
TemporarySequences == {"TEST", "STOP", "RUN", "ERROR", "KONAMI", "TAP"}

\* The sequences that return PENDING_MSG from a wait when the event is
\* set: those that wait with WAIT_OR_RET, and PULSE, which returns the
\* event it waited for.
Interruptible ==
    {"S5", "S3", "S0", "S3S0", "S0S3", "S3S5", "TEST", "ERROR", "TAP",
     "PULSE"}

\* The sequences that come to an end by themselves and return 0, and after
\* which the task changes st.cur_seq.
Finishing ==
    {"S5S3", "S3S0", "S0S3", "TEST", "RUN", "ERROR", "KONAMI", "TAP"}

\* What the lightbar's code never touches.
LightbarRest == <<power_vars, uart_vars, motion_vars>>

\* lightbar_sequence(num) with num > 0: the request replaces any earlier
\* one the task has not taken yet, and the task's event is set.
lightbar_sequence(num) ==
    /\ pending_msg' = num
    /\ lb_event' = TRUE
    /\ UNCHANGED <<cur_seq, prev_seq, LightbarRest>>

LightbarRequest ==
    \E num \in LIGHTBAR_SEQUENCES \ {"ERROR"} : lightbar_sequence(num)

\* lightbar_task, lines 917-923: the sequence returned PENDING_MSG.
lightbar_task_msg ==
    IF cur_seq # pending_msg
    THEN prev_seq' = cur_seq /\ cur_seq' = pending_msg
    ELSE UNCHANGED <<cur_seq, prev_seq>>

\* lightbar_task, lines 924-948: the sequence returned anything else.
lightbar_task_done ==
    /\ cur_seq' = (CASE cur_seq = "S5S3" -> "S3"
                     [] cur_seq = "S3S0" -> "S0"
                     [] cur_seq = "S0S3" -> "S3"
                     [] cur_seq = "S3S5" -> "S5"
                     [] cur_seq \in TemporarySequences -> prev_seq
                     [] OTHER -> cur_seq)
    /\ prev_seq' = prev_seq

\* The running sequence finds the event set in one of its waits and
\* returns PENDING_MSG; the task takes the request.
SequenceInterrupted ==
    /\ cur_seq \in Interruptible
    /\ lb_event
    /\ lb_event' = FALSE
    /\ lightbar_task_msg
    /\ UNCHANGED <<pending_msg, LightbarRest>>

\* The running sequence comes to its end and returns 0. An event set after
\* its last wait, or during a sequence that does not wait for events
\* (S5S3 and KONAMI use usleep, RUN returns at once), stays set.
SequenceFinished ==
    /\ cur_seq \in Finishing
    /\ lightbar_task_done
    /\ UNCHANGED <<pending_msg, lb_event, LightbarRest>>

\* sequence_STOP is woken: it returns 0 if the request is RUN and goes back
\* to waiting, the request lost, if it is anything else.
SequenceStopWoken ==
    /\ cur_seq = "STOP"
    /\ lb_event
    /\ lb_event' = FALSE
    /\ IF pending_msg = "RUN" THEN lightbar_task_done
       ELSE UNCHANGED <<cur_seq, prev_seq>>
    /\ UNCHANGED <<pending_msg, LightbarRest>>

LightbarInit == Init /\ pc = "reset" /\ signals = {}

LightbarNext ==
    \/ LightbarRequest
    \/ SequenceInterrupted
    \/ SequenceFinished
    \/ SequenceStopWoken

LightbarSpec == LightbarInit /\ [][LightbarNext]_vars

\* C40: the lightbar task never ends up stuck in a one-shot sequence: when
\* a temporary sequence (TEST, RUN, ERROR, KONAMI, TAP, or STOP released by
\* RUN) finishes with no message pending, the sequence the task runs next
\* is one of a power state or of a transition between power states, not a
\* temporary one.
C40_ResumesPowerSequence ==
    [][/\ cur_seq \in TemporarySequences
       /\ cur_seq' # cur_seq
       /\ ~lb_event'
       /\ \/ UNCHANGED <<pending_msg, lb_event>>
          \/ cur_seq = "STOP" /\ pending_msg = "RUN" /\ lb_event
       => cur_seq' \in PowerSequences]_vars

====
